---- MODULE Spec2Model ----
(***************************************************************************)
(* A model of the zamuza interaction-net compiler: the semantic checker    *)
(* (src/src/check.rs), the lowering of rules and nets to IR                *)
(* (src/src/backend/builder.rs, src/src/runtime/builder.rs) and the two    *)
(* reduction engines (src/src/runtime/vm.rs and the C runtime emitted by   *)
(* src/src/runtime/target/c.rs).                                           *)
(***************************************************************************)
EXTENDS Integers, Sequences, FiniteSets, TLC

VARIABLES
    module,     \* the ast::Module handed to the checker / the compiler
    call,       \* the last checker function called and what it returned
    ir_program, \* the IR Program built from the module, once compiled
    stack_size, \* Options::stack_size
    vm,         \* the interpreter (src/src/runtime/vm.rs) running the program
    c,          \* the emitted C program (src/src/runtime/target/c.rs) running it
    builder,    \* a RuntimeBuilder that modules are added to
    tcc         \* the tinycc binding (src/tinycc/src/lib.rs): flag, TCC states, threads

(***************************************************************************)
(* Bounds of the input families.                                           *)
(***************************************************************************)
MaxHeadArgs == 2
MaxEqs == 1
MaxIfaces == 1
MaxRules == 2
MaxNets == 2

SeqsUpTo(S, n) == UNION {[1..k -> S] : k \in 0..n}

(***************************************************************************)
(* The tinycc binding before any call: INITIALIZED is false, no TCCState   *)
(* exists, every thread holds neither a Context nor a RelocatedContext.    *)
(* A TCCState is named by its position in states, which counts the         *)
(* tcc_delete calls made on it; 0 stands for no state.                     *)
(***************************************************************************)
MaxThreads == 2
MaxStates == 2
Threads == 1..MaxThreads
TccNew ==
    [INITIALIZED |-> FALSE, states |-> <<>>, ub |-> FALSE,
     th |-> [t \in Threads |->
                [pc |-> "idle", context |-> 0, relocated |-> 0, res |-> "none"]]]

(***************************************************************************)
(* The syntax tree, src/src/ast.rs.  A Name is In (#x) or Out (@x); a Term *)
(* is a Name or an Agent with a body of terms.                             *)
(***************************************************************************)
NameIn(id) == [kind |-> "Name", io |-> "In", name |-> id, body |-> <<>>]
NameOut(id) == [kind |-> "Name", io |-> "Out", name |-> id, body |-> <<>>]
Agent(name, body) == [kind |-> "Agent", io |-> "", name |-> name, body |-> body]
as_name(n) == n.name
Equation(l, r) == [left |-> l, right |-> r]
RuleTerm(agent, body) == [agent |-> agent, body |-> body]
Rule(l, r, eqs) == [term_pair |-> [left |-> l, right |-> r], equations |-> eqs]
Net(name, ifs, eqs) == [name |-> name, interfaces |-> ifs, equations |-> eqs]
Module(rules, nets) == [rules |-> rules, nets |-> nets]

(***************************************************************************)
(* TypeError, src/src/check.rs.  Ok stands for Result::Ok(()).             *)
(***************************************************************************)
Ok == [kind |-> "Ok"]
NonLinearRule(name, pos) == [kind |-> "NonLinearRule", name |-> name, pos |-> pos]
VariableCountError(name, count) ==
    [kind |-> "VariableCountError", name |-> name, count |-> count]
OverlappingRules(r1, r2) == [kind |-> "OverlappingRules", r1 |-> r1, r2 |-> r2]
MultipleTimesAsInput(name) == [kind |-> "MultipleTimesAsInput", name |-> name]
MultipleTimesAsOutput(name) == [kind |-> "MultipleTimesAsOutput", name |-> name]
MisdirectedInput(name) == [kind |-> "MisdirectedInput", name |-> name]
MisdirectedOutput(name) == [kind |-> "MisdirectedOutput", name |-> name]
NoMainFunction == [kind |-> "NoMainFunction"]

IsOk(r) == r.kind = "Ok"
AllOk(rs) == \A r \in rs : IsOk(r)

EmptyMap == [k \in {} |-> 0]
Insert(map, k, v) == [x \in DOMAIN map \cup {k} |-> IF x = k THEN v ELSE map[x]]

\* the two heads' argument lists chained, left first
HeadChain(rule) == rule.term_pair.left.body \o rule.term_pair.right.body

(***************************************************************************)
(* check_rule_terms: a HashSet of the names seen; the first name whose     *)
(* insert fails is reported.                                               *)
(***************************************************************************)
RECURSIVE check_rule_terms_from(_, _, _)
\* variant: the sigil is taken as part of the identifier
check_rule_terms_sigil(chain, i, names) ==
    IF i > Len(chain) THEN Ok
    ELSE IF chain[i].io \o as_name(chain[i]) \in names THEN NonLinearRule(chain[i], i)
    ELSE check_rule_terms_from(chain, i + 1, names \cup {chain[i].io \o as_name(chain[i])})

check_rule_terms_from(chain, i, names) ==
    IF i > Len(chain) THEN Ok
    ELSE IF as_name(chain[i]) \in names THEN NonLinearRule(chain[i], i)
    ELSE check_rule_terms_from(chain, i + 1, names \cup {as_name(chain[i])})

check_rule_terms(rule) == check_rule_terms_from(HeadChain(rule), 1, {})

(***************************************************************************)
(* count_names: names maps an identifier to (count, last occurrence).      *)
(***************************************************************************)
count_entry(names, name) ==
    LET k == as_name(name)
        old == IF k \in DOMAIN names THEN names[k].count ELSE 0
    IN  Insert(names, k, [count |-> old + 1, name |-> name])

RECURSIVE count_names(_, _)
RECURSIVE count_names_body(_, _, _)
\* variant: agents are not descended into
count_names_shallow(term, names) ==
    IF term.kind = "Name" THEN count_entry(names, term) ELSE names

count_names(term, names) ==
    IF term.kind = "Name" THEN count_entry(names, term)
    ELSE count_names_body(term.body, 1, names)

count_names_body(body, i, names) ==
    IF i > Len(body) THEN names
    ELSE count_names_body(body, i + 1, count_names(body[i], names))

RECURSIVE count_heads(_, _, _)
count_heads(chain, i, names) ==
    IF i > Len(chain) THEN names
    ELSE count_heads(chain, i + 1, count_entry(names, chain[i]))

RECURSIVE count_equations(_, _, _)
count_equations(eqs, i, names) ==
    IF i > Len(eqs) THEN names
    ELSE count_equations(eqs, i + 1,
            count_names(eqs[i].right, count_names(eqs[i].left, names)))

\* `for (_, (count, name)) in names`: a HashMap is walked in no fixed order,
\* so any entry whose count is not 2 may be the one returned.
variable_count_result(names) ==
    LET bad == {k \in DOMAIN names : names[k].count # 2}
    IN  IF bad = {} THEN {Ok}
        ELSE {VariableCountError(names[k].name, names[k].count) : k \in bad}

check_rule_variables(rule) ==
    variable_count_result(
        count_equations(rule.equations, 1, count_heads(HeadChain(rule), 1, EmptyMap)))

check_net_variables(net) ==
    variable_count_result(
        count_names_body(net.interfaces, 1, count_equations(net.equations, 1, EmptyMap)))

(***************************************************************************)
(* check_overlapping: a HashMap keyed by the pair (left agent, right       *)
(* agent) as written.                                                      *)
(***************************************************************************)
overlap_key(rule) == <<rule.term_pair.left.agent, rule.term_pair.right.agent>>

RECURSIVE check_overlapping_from(_, _, _)
check_overlapping_from(rules, i, rule_sets) ==
    IF i > Len(rules) THEN Ok
    ELSE LET agents == overlap_key(rules[i])
         IN  IF agents \in DOMAIN rule_sets
             THEN OverlappingRules(rules[i].term_pair,
                                   rules[rule_sets[agents]].term_pair)
             ELSE check_overlapping_from(rules, i + 1, Insert(rule_sets, agents, i))

check_overlapping(program) == check_overlapping_from(program.rules, 1, EmptyMap)

(***************************************************************************)
(* Input-output balance.  st = [map, res]: input_map and the Result so     *)
(* far; an error stops the walk (the ? operator).                          *)
(***************************************************************************)
RECURSIVE check_term_io_balance(_, _)
RECURSIVE check_body_io_balance(_, _, _)
check_term_io_balance(term, st) ==
    IF ~IsOk(st.res) THEN st
    ELSE IF term.kind = "Name" THEN
        IF as_name(term) \in DOMAIN st.map THEN
            LET input == st.map[as_name(term)]
            IN  IF term.io = "In" /\ input
                    THEN [st EXCEPT !.res = MultipleTimesAsInput(term)]
                ELSE IF term.io = "Out" /\ ~input
                    THEN [st EXCEPT !.res = MultipleTimesAsOutput(term)]
                ELSE st
        ELSE [st EXCEPT !.map = Insert(st.map, as_name(term), term.io = "In")]
    ELSE check_body_io_balance(term.body, 1, st)

check_body_io_balance(body, i, st) ==
    IF i > Len(body) THEN st
    ELSE check_body_io_balance(body, i + 1, check_term_io_balance(body[i], st))

RECURSIVE check_equations_io_balance_from(_, _, _)
check_equations_io_balance_from(net, i, st) ==
    IF i > Len(net) THEN st
    ELSE check_equations_io_balance_from(net, i + 1,
            check_term_io_balance(net[i].right,
                check_term_io_balance(net[i].left, st)))

check_equations_io_balance(net, input_map) ==
    check_equations_io_balance_from(net, 1, [map |-> input_map, res |-> Ok]).res

check_net_io_balance(net) ==
    LET st == check_body_io_balance(net.interfaces, 1, [map |-> EmptyMap, res |-> Ok])
    IN  IF ~IsOk(st.res) THEN st.res
        ELSE check_equations_io_balance(net.equations, st.map)

\* the head names are written with the opposite flag
RECURSIVE seed_heads(_, _, _)
\* variant: a head name is seeded with its own flag
seed_heads_same(chain, i, input_map) ==
    IF i > Len(chain) THEN input_map
    ELSE seed_heads(chain, i + 1,
            Insert(input_map, as_name(chain[i]), chain[i].io = "In"))

seed_heads(chain, i, input_map) ==
    IF i > Len(chain) THEN input_map
    ELSE seed_heads(chain, i + 1,
            Insert(input_map, as_name(chain[i]), chain[i].io = "Out"))

check_rule_io_balance(rule) ==
    check_equations_io_balance(rule.equations,
                               seed_heads(HeadChain(rule), 1, EmptyMap))

(***************************************************************************)
(* check_equation_var_io_dir, check_main, check_module.                    *)
(***************************************************************************)
\* variant: the right endpoint is examined first
check_equation_var_io_dir_right_first(equation) ==
    IF equation.right.kind = "Name" /\ equation.right.io = "In" THEN MisdirectedInput(equation.right)
    ELSE IF equation.left.kind = "Name" /\ equation.left.io = "Out" THEN MisdirectedOutput(equation.left)
    ELSE Ok

check_equation_var_io_dir(equation) ==
    IF equation.left.kind = "Name" /\ equation.left.io = "Out"
        THEN MisdirectedOutput(equation.left)
    ELSE IF equation.right.kind = "Name" /\ equation.right.io = "In"
        THEN MisdirectedInput(equation.right)
    ELSE Ok

\* variant: every net has to be named Main
check_main_all(program) ==
    IF ~(\A j \in 1..Len(program.nets) : program.nets[j].name = "Main") THEN NoMainFunction ELSE Ok

check_main(program) ==
    IF ~(\E j \in 1..Len(program.nets) : program.nets[j].name = "Main")
    THEN NoMainFunction ELSE Ok

RECURSIVE check_equations_dir(_, _)
check_equations_dir(eqs, i) ==
    IF i > Len(eqs) THEN Ok
    ELSE LET r == check_equation_var_io_dir(eqs[i])
         IN  IF ~IsOk(r) THEN r ELSE check_equations_dir(eqs, i + 1)

\* the body of `for rule in &module.rules`
check_module_rule(rule) ==
    LET t == check_rule_terms(rule) IN
    IF ~IsOk(t) THEN {t} ELSE
    LET v == check_rule_variables(rule) IN
    IF ~AllOk(v) THEN v ELSE
    LET b == check_rule_io_balance(rule) IN
    IF ~IsOk(b) THEN {b} ELSE {check_equations_dir(rule.equations, 1)}

\* the body of `for net in &module.nets`
check_module_net(net) ==
    LET v == check_net_variables(net) IN
    IF ~AllOk(v) THEN v ELSE
    LET b == check_net_io_balance(net) IN
    IF ~IsOk(b) THEN {b} ELSE {check_equations_dir(net.equations, 1)}

RECURSIVE check_module_rules(_, _)
check_module_rules(rules, i) ==
    IF i > Len(rules) THEN {Ok}
    ELSE LET r == check_module_rule(rules[i])
         IN  IF ~AllOk(r) THEN r ELSE check_module_rules(rules, i + 1)

RECURSIVE check_module_nets(_, _)
check_module_nets(nets, i) ==
    IF i > Len(nets) THEN {Ok}
    ELSE LET r == check_module_net(nets[i])
         IN  IF ~AllOk(r) THEN r ELSE check_module_nets(nets, i + 1)

check_module(m) ==
    LET r == check_module_rules(m.rules, 1) IN
    IF ~AllOk(r) THEN r ELSE
    LET n == check_module_nets(m.nets, 1) IN
    IF ~AllOk(n) THEN n ELSE
    LET o == check_overlapping(m) IN
    IF ~IsOk(o) THEN {o} ELSE {check_main(m)}

(***************************************************************************)
(* Inputs of the checker: families of small modules.                       *)
(***************************************************************************)
MainNet == Net("Main", <<>>, <<>>)
HeadNames == {NameIn("x"), NameOut("x"), NameIn("y")}
EqTerms ==
    {NameIn("x"), NameOut("x"), NameIn("y"), NameOut("y"), Agent("Z", <<>>),
     Agent("S", <<NameIn("x")>>), Agent("S", <<NameOut("x")>>)}
Eqs == {Equation(l, r) : l \in EqTerms, r \in EqTerms}
IfaceTerms == {NameIn("x"), NameOut("x"), Agent("S", <<NameOut("y")>>)}
HeadPairs ==
    {<<RuleTerm("A", <<>>), RuleTerm("B", <<>>)>>,
     <<RuleTerm("A", <<NameIn("x")>>), RuleTerm("B", <<>>)>>,
     <<RuleTerm("A", <<NameIn("x")>>), RuleTerm("B", <<NameOut("y")>>)>>,
     <<RuleTerm("A", <<NameOut("x")>>), RuleTerm("B", <<NameIn("y")>>)>>}
MisdirectedEq == Equation(NameOut("x"), NameIn("x"))
SimpleRules ==
    {Rule(RuleTerm(a, <<>>), RuleTerm(b, <<>>), <<>>) : a \in {"A", "B"}, b \in {"A", "B"}}
    \cup {Rule(RuleTerm("A", <<>>), RuleTerm("B", <<>>), <<MisdirectedEq>>)}
SimpleNets ==
    {Net(n, <<>>, <<>>) : n \in {"Main", "main", "Aux"}}
    \cup {Net("Aux", <<>>, <<MisdirectedEq>>)}

FamHeads ==
    {Module(<<Rule(RuleTerm("A", l), RuleTerm("B", r), <<>>)>>, <<MainNet>>) :
        l \in SeqsUpTo(HeadNames, MaxHeadArgs), r \in SeqsUpTo(HeadNames, MaxHeadArgs)}
FamRuleBody ==
    {Module(<<Rule(h[1], h[2], eqs)>>, <<MainNet>>) :
        h \in HeadPairs, eqs \in SeqsUpTo(Eqs, MaxEqs)}
\* nets without interfaces over every equation, nets with interfaces over the
\* equations that can close them
IfaceEqTerms ==
    {NameIn("x"), NameOut("x"), NameIn("y"), Agent("Z", <<>>), Agent("S", <<NameIn("x")>>)}
IfaceEqs == {Equation(l, r) : l \in IfaceEqTerms, r \in IfaceEqTerms}
FamNet ==
    {Module(<<>>, <<Net("Main", <<>>, eqs)>>) : eqs \in SeqsUpTo(Eqs, MaxEqs)}
    \cup {Module(<<>>, <<Net("Main", ifs, eqs)>>) :
            ifs \in SeqsUpTo(IfaceTerms, MaxIfaces), eqs \in SeqsUpTo(IfaceEqs, MaxEqs)}
FamOverlap == {Module(rules, <<MainNet>>) : rules \in SeqsUpTo(SimpleRules, MaxRules)}
FamMain ==
    {Module(rules, nets) :
        rules \in {<<>>, <<Rule(RuleTerm("A", <<>>), RuleTerm("B", <<>>), <<>>)>>},
        nets \in SeqsUpTo(SimpleNets, MaxNets)}

CheckInputs == FamHeads \cup FamRuleBody \cup FamNet \cup FamOverlap \cup FamMain

(***************************************************************************)
(* The checker specification: a module is drawn, then any checker function *)
(* is called on it (or on one of its rules, nets or equations).            *)
(***************************************************************************)
NoCall == [fn |-> "none"]
Called(fn, i, res) == [fn |-> fn, i |-> i, res |-> res]

RuleEquations(m) ==
    UNION {{m.rules[i].equations[k] : k \in 1..Len(m.rules[i].equations)} :
            i \in 1..Len(m.rules)}
NetEquations(m) ==
    UNION {{m.nets[j].equations[k] : k \in 1..Len(m.nets[j].equations)} :
            j \in 1..Len(m.nets)}

CallCheckModule ==
    /\ \E r \in check_module(module) : call' = Called("check_module", 0, r)
    /\ UNCHANGED <<module, ir_program, stack_size, vm, c, builder, tcc>>

CallCheckRuleTerms ==
    /\ \E i \in 1..Len(module.rules) :
          call' = Called("check_rule_terms", i, check_rule_terms(module.rules[i]))
    /\ UNCHANGED <<module, ir_program, stack_size, vm, c, builder, tcc>>

CallCheckRuleVariables ==
    /\ \E i \in 1..Len(module.rules) : \E r \in check_rule_variables(module.rules[i]) :
          call' = Called("check_rule_variables", i, r)
    /\ UNCHANGED <<module, ir_program, stack_size, vm, c, builder, tcc>>

CallCheckNetVariables ==
    /\ \E j \in 1..Len(module.nets) : \E r \in check_net_variables(module.nets[j]) :
          call' = Called("check_net_variables", j, r)
    /\ UNCHANGED <<module, ir_program, stack_size, vm, c, builder, tcc>>

CallCheckOverlapping ==
    /\ call' = Called("check_overlapping", 0, check_overlapping(module))
    /\ UNCHANGED <<module, ir_program, stack_size, vm, c, builder, tcc>>

CallCheckRuleIoBalance ==
    /\ \E i \in 1..Len(module.rules) :
          call' = Called("check_rule_io_balance", i, check_rule_io_balance(module.rules[i]))
    /\ UNCHANGED <<module, ir_program, stack_size, vm, c, builder, tcc>>

CallCheckNetIoBalance ==
    /\ \E j \in 1..Len(module.nets) :
          call' = Called("check_net_io_balance", j, check_net_io_balance(module.nets[j]))
    /\ UNCHANGED <<module, ir_program, stack_size, vm, c, builder, tcc>>

CallCheckEquationVarIoDir ==
    /\ \E e \in RuleEquations(module) \cup NetEquations(module) :
          call' = [fn |-> "check_equation_var_io_dir", eq |-> e,
                   res |-> check_equation_var_io_dir(e)]
    /\ UNCHANGED <<module, ir_program, stack_size, vm, c, builder, tcc>>

CallCheckMain ==
    /\ call' = Called("check_main", 0, check_main(module))
    /\ UNCHANGED <<module, ir_program, stack_size, vm, c, builder, tcc>>

(***************************************************************************)
(* Occurrences of names, for stating the claims about the checker.         *)
(***************************************************************************)
RECURSIVE TermNames(_)
RECURSIVE BodyNames(_, _)
TermNames(term) == IF term.kind = "Name" THEN <<term>> ELSE BodyNames(term.body, 1)
BodyNames(body, i) ==
    IF i > Len(body) THEN <<>> ELSE TermNames(body[i]) \o BodyNames(body, i + 1)

RECURSIVE EquationsNames(_, _)
EquationsNames(eqs, i) ==
    IF i > Len(eqs) THEN <<>>
    ELSE TermNames(eqs[i].left) \o TermNames(eqs[i].right) \o EquationsNames(eqs, i + 1)

RuleOccurrences(rule) == HeadChain(rule) \o EquationsNames(rule.equations, 1)
NetOccurrences(net) == BodyNames(net.interfaces, 1) \o EquationsNames(net.equations, 1)
Ids(occ) == {as_name(occ[i]) : i \in DOMAIN occ}
Times(occ, id) == Cardinality({i \in DOMAIN occ : as_name(occ[i]) = id})
Sigils(occ, id) == {occ[i].io : i \in {k \in DOMAIN occ : as_name(occ[k]) = id}}
ExactlyTwice(occ) == \A id \in Ids(occ) : Times(occ, id) = 2
HasNested(eqs) ==
    \E k \in DOMAIN eqs : \E t \in {eqs[k].left, eqs[k].right} :
        t.kind = "Agent" /\ Len(t.body) > 0

CountVerdict(occ, res) ==
    IF ExactlyTwice(occ) THEN IsOk(res)
    ELSE /\ res.kind = "VariableCountError"
         /\ res.count # 2
         /\ res.count = Times(occ, as_name(res.name))

\* C1: every name of an accepted module occurs exactly twice in each rule
\* (heads and body, nested occurrences included) and in each net (interfaces
\* and equations); check_rule_variables and check_net_variables return
\* VariableCountError with an offending name and its actual count when some
\* name has another count, and Ok otherwise.
C1_ExactlyTwice ==
    /\ (call.fn = "check_module" /\ IsOk(call.res)) =>
          /\ \A i \in DOMAIN module.rules : ExactlyTwice(RuleOccurrences(module.rules[i]))
          /\ \A j \in DOMAIN module.nets : ExactlyTwice(NetOccurrences(module.nets[j]))
    /\ call.fn = "check_rule_variables" =>
          CountVerdict(RuleOccurrences(module.rules[call.i]), call.res)
    /\ call.fn = "check_net_variables" =>
          CountVerdict(NetOccurrences(module.nets[call.i]), call.res)

C1_Witness ==
    /\ call.fn = "check_module"
    /\ IsOk(call.res)
    /\ \E i \in DOMAIN module.rules :
          /\ Len(HeadChain(module.rules[i])) > 0
          /\ HasNested(module.rules[i].equations)

\* C2: check_rule_terms returns NonLinearRule exactly when two positions of
\* the chained head argument lists hold the same identifier (sigils ignored);
\* the name reported is the second occurrence; distinct head names pass.
C2_NonLinearRule ==
    call.fn = "check_rule_terms" =>
        LET chain == HeadChain(module.rules[call.i])
            dup == {j \in DOMAIN chain :
                       \E i \in 1..(j - 1) : as_name(chain[i]) = as_name(chain[j])}
        IN  /\ (dup = {}) <=> IsOk(call.res)
            /\ (dup # {}) <=> (call.res.kind = "NonLinearRule")
            /\ dup # {} =>
                  /\ call.res.pos \in dup
                  /\ \A j \in dup : call.res.pos <= j
                  /\ call.res.name = chain[call.res.pos]
                  /\ Cardinality({i \in 1..(call.res.pos - 1) :
                        as_name(chain[i]) = as_name(call.res.name)}) = 1

C2_Witness ==
    /\ call.fn = "check_rule_terms"
    /\ call.res.kind = "NonLinearRule"
    /\ call.res.pos > Len(module.rules[call.i].term_pair.left.body)
    /\ \E i \in DOMAIN module.rules[call.i].term_pair.left.body :
          /\ as_name(module.rules[call.i].term_pair.left.body[i]) = as_name(call.res.name)
          /\ module.rules[call.i].term_pair.left.body[i].io # call.res.name.io

SameUnorderedHeads(r1, r2) ==
    {r1.term_pair.left.agent, r1.term_pair.right.agent}
        = {r2.term_pair.left.agent, r2.term_pair.right.agent}
    /\ (r1.term_pair.left.agent = r1.term_pair.right.agent
            <=> r2.term_pair.left.agent = r2.term_pair.right.agent)

RulesAndNetsPass(m) ==
    AllOk(check_module_rules(m.rules, 1)) /\ AllOk(check_module_nets(m.nets, 1))

\* C3: check_module fails with OverlappingRules whenever two rules of the
\* module have the same unordered pair of head agent symbols (also when one
\* is written (A, B) and the other (B, A)), the error carrying both head
\* pairs.  Stated for modules whose rules and nets pass their own checks,
\* which check_module runs first.
C3_OverlapUnordered ==
    (/\ call.fn = "check_module"
     /\ RulesAndNetsPass(module)
     /\ \E i, j \in DOMAIN module.rules :
           i < j /\ SameUnorderedHeads(module.rules[i], module.rules[j]))
    => /\ call.res.kind = "OverlappingRules"
       /\ \E i, j \in DOMAIN module.rules :
             /\ i < j
             /\ SameUnorderedHeads(module.rules[i], module.rules[j])
             /\ call.res.r1 = module.rules[j].term_pair
             /\ call.res.r2 = module.rules[i].term_pair

\* the polarity verdict on an occurrence list whose first `seeded` entries
\* are head arguments: the offending names are those whose body occurrence
\* differs from the head's sigil, or whose two body occurrences agree
Offending(occ, seeded) ==
    {id \in Ids(occ) :
        LET at == {k \in DOMAIN occ : as_name(occ[k]) = id}
        IN  \/ \E h \in at, b \in at : h <= seeded /\ b > seeded /\ occ[h].io # occ[b].io
            \/ \E a \in at, b \in at : a > seeded /\ b > a /\ occ[a].io = occ[b].io}

BalanceVerdict(occ, seeded, res) ==
    IF Offending(occ, seeded) = {} THEN IsOk(res)
    ELSE /\ res.kind \in {"MultipleTimesAsInput", "MultipleTimesAsOutput"}
         /\ as_name(res.name) \in Offending(occ, seeded)
         /\ res.kind = "MultipleTimesAsInput" <=> res.name.io = "In"

\* C4: in a net whose names occur twice, a name written # twice fails with
\* MultipleTimesAsInput, one written @ twice with MultipleTimesAsOutput, and
\* one # with one @ in either order passes; in a rule a head name's body
\* occurrence passes exactly when it has the head's sigil, and names of the
\* body alone follow the net rule.
C4_PolarityBalance ==
    /\ call.fn = "check_net_io_balance" =>
          LET occ == NetOccurrences(module.nets[call.i])
          IN  ExactlyTwice(occ) => BalanceVerdict(occ, 0, call.res)
    /\ call.fn = "check_rule_io_balance" =>
          LET rule == module.rules[call.i]
              occ == RuleOccurrences(rule)
          IN  (ExactlyTwice(occ) /\ IsOk(check_rule_terms(rule)))
                  => BalanceVerdict(occ, Len(HeadChain(rule)), call.res)

C4_Witness ==
    /\ call.fn = "check_rule_io_balance"
    /\ call.res.kind = "MultipleTimesAsOutput"
    /\ ExactlyTwice(RuleOccurrences(module.rules[call.i]))
    /\ \E h \in DOMAIN HeadChain(module.rules[call.i]) :
          /\ as_name(HeadChain(module.rules[call.i])[h]) = as_name(call.res.name)
          /\ HeadChain(module.rules[call.i])[h].io = "In"

AllEquations(m) == RuleEquations(m) \cup NetEquations(m)
BareOut(t) == t.kind = "Name" /\ t.io = "Out"
BareIn(t) == t.kind = "Name" /\ t.io = "In"

\* C5: no equation of an accepted module has a bare @-name on the left or a
\* bare #-name on the right; check_equation_var_io_dir returns
\* MisdirectedOutput for a bare @-name on the left, else MisdirectedInput for
\* a bare #-name on the right, else Ok (names inside agents are not looked at).
C5_EquationDirection ==
    /\ (call.fn = "check_module" /\ IsOk(call.res)) =>
          \A e \in AllEquations(module) : ~BareOut(e.left) /\ ~BareIn(e.right)
    /\ call.fn = "check_equation_var_io_dir" =>
          /\ BareOut(call.eq.left) =>
                call.res.kind = "MisdirectedOutput" /\ call.res.name = call.eq.left
          /\ (~BareOut(call.eq.left) /\ BareIn(call.eq.right)) =>
                call.res.kind = "MisdirectedInput" /\ call.res.name = call.eq.right
          /\ (~BareOut(call.eq.left) /\ ~BareIn(call.eq.right)) => IsOk(call.res)

C5_Witness ==
    /\ call.fn = "check_equation_var_io_dir"
    /\ BareOut(call.eq.left)
    /\ BareIn(call.eq.right)
    /\ call.res.kind = "MisdirectedOutput"

HasMain(m) == \E j \in DOMAIN m.nets : m.nets[j].name = "Main"

\* C6: check_module returns NoMainFunction for every module that passes the
\* other checks and has no net named exactly Main, and never for a module
\* that has one.
C6_NoMainFunction ==
    call.fn = "check_module" =>
        /\ (RulesAndNetsPass(module) /\ IsOk(check_overlapping(module)) /\ ~HasMain(module))
              => call.res.kind = "NoMainFunction"
        /\ HasMain(module) => call.res.kind # "NoMainFunction"

C6_Witness ==
    /\ call.fn = "check_module"
    /\ call.res.kind = "NoMainFunction"
    /\ Len(module.rules) > 0
    /\ Len(module.nets) = 0

(***************************************************************************)
(* The IR (src/src/runtime/mod.rs) and its builder.  Indices and agent ids *)
(* count from 0 as in the source; element i of a Vec is element i + 1 of   *)
(* the sequence that models it.                                            *)
(***************************************************************************)
LocalName(index) == [l |-> "Name", index |-> index]
LocalAgent(index) == [l |-> "Agent", index |-> index]
LocalSlot(index) == [l |-> "Slot", index |-> index]
InitializerName(index) == [op |-> "Name", index |-> index]
InitializerAgent(index, id) == [op |-> "Agent", index |-> index, id |-> id]
SlotFromLeft(index, slot) == [op |-> "SlotFromLeft", index |-> index, slot |-> slot]
SlotFromRight(index, slot) == [op |-> "SlotFromRight", index |-> index, slot |-> slot]
SetSlot(target, slot, value) ==
    [op |-> "SetSlot", target |-> target, slot |-> slot, value |-> value]
PushEquation(left, right) == [op |-> "PushEquation", left |-> left, right |-> right]
AgentMeta(name, arity) == [name |-> name, arity |-> arity]

Min(S) == CHOOSE x \in S : \A y \in S : x <= y
Max(S) == CHOOSE x \in S : \A y \in S : x >= y

\* GlobalBuilder::default: the agent table starts with `$` of arity 1
GlobalBuilder == <<AgentMeta("$", 1)>>

\* variant: a symbol met with another arity is entered again
add_or_get_agent_again(agents, name, arity) ==
    LET found == {k \in DOMAIN agents : agents[k].name = name /\ agents[k].arity = arity}
    IN  IF found # {}
        THEN [agents |-> agents, id |-> Min(found) - 1, ok |-> TRUE]
        ELSE [agents |-> Append(agents, AgentMeta(name, arity)),
              id |-> Len(agents), ok |-> TRUE]

\* GlobalBuilder::add_or_get_agent: [agents, id, ok]; ok is FALSE for the
\* arity conflict (bail!)
add_or_get_agent(agents, name, arity) ==
    LET found == {k \in DOMAIN agents : agents[k].name = name}
    IN  IF found # {}
        THEN [agents |-> agents, id |-> Min(found) - 1,
              ok |-> agents[Min(found)].arity = arity]
        ELSE [agents |-> Append(agents, AgentMeta(name, arity)),
              id |-> Len(agents), ok |-> TRUE]

\* BodyBuilder, carrying the GlobalBuilder it is handed and whether a `?`
\* has failed
BodyBuilder(global) ==
    [global |-> global, arguments |-> <<>>, names |-> <<>>, terms |-> <<>>,
     instructions |-> <<>>, ok |-> TRUE]

\* BodyBuilder::slot
slot(b, name, side, index) ==
    [b EXCEPT !.arguments = Append(@, [name |-> name, side |-> side, slot |-> index])]

\* BodyBuilder::add_or_get_name: [b, local]
add_or_get_name(b, name) ==
    LET args == {k \in DOMAIN b.arguments : b.arguments[k].name = name}
        known == {k \in DOMAIN b.names : b.names[k] = name}
    IN  IF args # {} THEN [b |-> b, local |-> LocalSlot(Min(args) - 1)]
        ELSE IF known # {} THEN [b |-> b, local |-> LocalName(Min(known) - 1)]
        ELSE [b |-> [b EXCEPT !.names = Append(@, name)],
              local |-> LocalName(Len(b.names))]

\* BodyBuilder::add_term: [b, local]
add_term(b, agent_id) ==
    [b |-> [b EXCEPT !.terms = Append(@, agent_id)], local |-> LocalAgent(Len(b.terms))]

\* BodyBuilder::term: [b, local]; term_body is its loop over the agent's body
RECURSIVE term(_, _)
RECURSIVE term_body(_, _, _, _)
term(b, t) ==
    IF t.kind = "Name" THEN add_or_get_name(b, as_name(t))
    ELSE LET g == add_or_get_agent(b.global, t.name, Len(t.body))
             a == add_term([b EXCEPT !.global = g.agents, !.ok = @ /\ g.ok], g.id)
         IN  [b |-> term_body(a.b, a.local, t.body, 1), local |-> a.local]

\* variant: the agent is installed in its parent before its own slots are set
term_body_parent_first(b, term_name, body, i) ==
    IF i > Len(body) THEN b
    ELSE LET sub == term(b, body[i])
         IN  term_body([sub.b EXCEPT !.instructions =
                            b.instructions \o <<SetSlot(term_name, i, sub.local)>>
                                \o SubSeq(@, Len(b.instructions) + 1, Len(@))],
                       term_name, body, i + 1)

term_body(b, term_name, body, i) ==
    IF i > Len(body) THEN b
    ELSE LET sub == term(b, body[i])
         IN  term_body([sub.b EXCEPT !.instructions =
                            Append(@, SetSlot(term_name, i, sub.local))],
                       term_name, body, i + 1)

\* BodyBuilder::equation
equation(b, eq) ==
    LET l == term(b, eq.left)
        r == term(l.b, eq.right)
    IN  [r.b EXCEPT !.instructions = Append(@, PushEquation(l.local, r.local))]

RECURSIVE equations(_, _, _)
equations(b, eqs, i) ==
    IF i > Len(eqs) THEN b ELSE equations(equation(b, eqs[i]), eqs, i + 1)

\* BodyBuilder::build: the initializers, arguments then names then terms
body_initializers(b) ==
    [k \in DOMAIN b.arguments |->
        IF b.arguments[k].side = "Left"
        THEN SlotFromLeft(k - 1, b.arguments[k].slot)
        ELSE SlotFromRight(k - 1, b.arguments[k].slot)]
    \o [k \in DOMAIN b.names |-> InitializerName(k - 1)]
    \o [k \in DOMAIN b.terms |-> InitializerAgent(k - 1, b.terms[k])]

RECURSIVE slots(_, _, _, _)
slots(b, body, side, i) ==
    IF i > Len(body) THEN b
    ELSE slots(slot(b, as_name(body[i]), side, i), body, side, i + 1)

\* the RuntimeBuilder: [global, rules, rule_map, functions, entry_point, ok]
RuntimeBuilder ==
    [global |-> GlobalBuilder, rules |-> <<>>, rule_map |-> <<>>,
     functions |-> <<>>, entry_point |-> <<>>, ok |-> TRUE]

\* variant: the ids are put in order, the heads stay as written
rule_lower_as_written(rb, rule) ==
    LET term1 == rule.term_pair.left
        term2 == rule.term_pair.right
        g1 == add_or_get_agent(rb.global, term1.agent, Len(term1.body))
        g2 == add_or_get_agent(g1.agents, term2.agent, Len(term2.body))
        a_left == IF g1.id <= g2.id THEN g1.id ELSE g2.id
        a_right == IF g1.id <= g2.id THEN g2.id ELSE g1.id
        term_left == term1
        term_right == term2
        b0 == slots(slots(BodyBuilder(g2.agents), term_left.body, "Left", 1),
                    term_right.body, "Right", 1)
        b == equations(b0, rule.equations, 1)
        index == Len(rb.rules)
    IN  [rb EXCEPT !.global = b.global,
                   !.ok = @ /\ g1.ok /\ g2.ok /\ b.ok,
                   !.rules = Append(@, [index |-> index,
                                        initializers |-> body_initializers(b),
                                        instructions |-> b.instructions]),
                   !.rule_map = Append(@, <<a_left, a_right, index>>)]

\* RulesBuilder::rule: the heads are put in the order of their agent ids
rule_lower(rb, rule) ==
    LET term1 == rule.term_pair.left
        term2 == rule.term_pair.right
        g1 == add_or_get_agent(rb.global, term1.agent, Len(term1.body))
        g2 == add_or_get_agent(g1.agents, term2.agent, Len(term2.body))
        a_left == IF g1.id <= g2.id THEN g1.id ELSE g2.id
        a_right == IF g1.id <= g2.id THEN g2.id ELSE g1.id
        term_left == IF g1.id <= g2.id THEN term1 ELSE term2
        term_right == IF g1.id <= g2.id THEN term2 ELSE term1
        b0 == slots(slots(BodyBuilder(g2.agents), term_left.body, "Left", 1),
                    term_right.body, "Right", 1)
        b == equations(b0, rule.equations, 1)
        index == Len(rb.rules)
    IN  [rb EXCEPT !.global = b.global,
                   !.ok = @ /\ g1.ok /\ g2.ok /\ b.ok,
                   !.rules = Append(@, [index |-> index,
                                        initializers |-> body_initializers(b),
                                        instructions |-> b.instructions]),
                   !.rule_map = Append(@, <<a_left, a_right, index>>)]

RECURSIVE interfaces(_, _, _)
\* variant: each output is put in front of the earlier ones
interfaces_reversed(st, ifs, i) ==
    IF i > Len(ifs) THEN st
    ELSE LET t == term(st.b, ifs[i])
         IN  interfaces([b |-> t.b, outputs |-> <<t.local>> \o st.outputs], ifs, i + 1)

interfaces(st, ifs, i) ==
    IF i > Len(ifs) THEN st
    ELSE LET t == term(st.b, ifs[i])
         IN  interfaces([b |-> t.b, outputs |-> Append(st.outputs, t.local)], ifs, i + 1)

\* variant: a later net named Main takes the entry point over
function_lower_last_main(rb, net) ==
    LET st == interfaces([b |-> equations(BodyBuilder(rb.global), net.equations, 1),
                          outputs |-> <<>>], net.interfaces, 1)
        index == Len(rb.functions)
    IN  [rb EXCEPT !.global = st.b.global,
                   !.ok = @ /\ st.b.ok,
                   !.entry_point = IF net.name = "Main" THEN <<index>> ELSE @,
                   !.functions = Append(@, [index |-> index, name |-> net.name,
                                            initializers |-> body_initializers(st.b),
                                            instructions |-> st.b.instructions,
                                            outputs |-> st.outputs])]

\* FunctionsBuilder::function: the equations are lowered before the
\* interfaces; a second net named Main fails (entry_point)
function_lower(rb, net) ==
    LET st == interfaces([b |-> equations(BodyBuilder(rb.global), net.equations, 1),
                          outputs |-> <<>>], net.interfaces, 1)
        index == Len(rb.functions)
    IN  [rb EXCEPT !.global = st.b.global,
                   !.ok = @ /\ st.b.ok /\ ~(net.name = "Main" /\ rb.entry_point # <<>>),
                   !.entry_point = IF net.name = "Main" /\ @ = <<>> THEN <<index>> ELSE @,
                   !.functions = Append(@, [index |-> index, name |-> net.name,
                                            initializers |-> body_initializers(st.b),
                                            instructions |-> st.b.instructions,
                                            outputs |-> st.outputs])]

RECURSIVE module_rules(_, _, _)
module_rules(rb, rules, i) ==
    IF i > Len(rules) THEN rb ELSE module_rules(rule_lower(rb, rules[i]), rules, i + 1)

RECURSIVE module_nets(_, _, _)
module_nets(rb, nets, i) ==
    IF i > Len(nets) THEN rb ELSE module_nets(function_lower(rb, nets[i]), nets, i + 1)

\* RuntimeBuilder::build: the Program, or [ok |-> FALSE] when a builder call
\* failed or no entry point was found
build(rb) ==
    IF rb.ok /\ rb.entry_point # <<>>
    THEN [ok |-> TRUE, agents |-> rb.global, rules |-> rb.rules,
          rule_map |-> rb.rule_map, functions |-> rb.functions,
          entry_point |-> rb.entry_point[1]]
    ELSE [ok |-> FALSE]

\* variant: every module is lowered into a builder of its own
builder_module_fresh(rb, m) ==
    module_nets(module_rules(RuntimeBuilder, m.rules, 1), m.nets, 1)

\* RuntimeBuilder::module: the rules, then the nets
builder_module(rb, m) == module_nets(module_rules(rb, m.rules, 1), m.nets, 1)

build_runtime(m) == build(builder_module(RuntimeBuilder, m))

(***************************************************************************)
(* The interpreter, src/src/runtime/vm.rs.  A Value is Term(Some(term)),   *)
(* Term(None) or Ref(rc); refs is the store of the Rc<RefCell<Ref>> cells  *)
(* and a Ref value holds the index of its cell.  rt is the Runtime:        *)
(* [refs, name_counter, equation_stack, overflowed].                       *)
(***************************************************************************)
OutputMaxRecursion == 1000
MessageMaxRecursion == 3
NoRule == -1

VNone == [t |-> "None"]
VTerm(id, sl) == [t |-> "Term", id |-> id, slots |-> sl]
VRef(r) == [t |-> "Ref", r |-> r]
RefName(n) == [k |-> "Name", n |-> n]
RefValue(v) == [k |-> "Value", v |-> v]

\* variant: a reference is moved out like a term
take_moved(v) == VNone

\* Value::take: what is left behind when the value is moved out
take(v) == IF v.t = "Ref" THEN v ELSE VNone

\* VM::new: the Runtime part
Runtime ==
    [refs |-> <<>>, name_counter |-> 0, equation_stack |-> <<>>, overflowed |-> FALSE]

\* VM::new collects rule_map into a HashMap: of two entries with one key the
\* later stays.  The index of the rule for (l, r), or NoRule
rule_map_get(l, r) ==
    LET hits == {k \in DOMAIN ir_program.rule_map :
                    ir_program.rule_map[k][1] = l /\ ir_program.rule_map[k][2] = r}
    IN  IF hits = {} THEN NoRule ELSE ir_program.rule_map[Max(hits)][3]

new_agent(agent_id) ==
    VTerm(agent_id, [k \in 1..ir_program.agents[agent_id + 1].arity |-> VNone])

new_name(rt) ==
    [rt |-> [rt EXCEPT !.name_counter = @ + 1,
                       !.refs = Append(@, RefName(rt.name_counter + 1))],
     value |-> VRef(Len(rt.refs) + 1)]

\* variant: the equation goes under the stack
push_equation_under(rt, lhs, rhs) ==
    [rt EXCEPT !.equation_stack = <<<<lhs, rhs>>>> \o @,
               !.overflowed = @ \/ Len(rt.equation_stack) + 1 > stack_size]

\* the overflow is a warning: the equation is pushed all the same
push_equation(rt, lhs, rhs) ==
    [rt EXCEPT !.equation_stack = Append(@, <<lhs, rhs>>),
               !.overflowed = @ \/ Len(rt.equation_stack) + 1 > stack_size]

RECURSIVE print_term(_, _, _)
RECURSIVE print_slots(_, _, _, _)
RECURSIVE print_non_null(_, _, _)
RECURSIVE print(_, _, _)
print_term(refs, t, max_recursion) ==
    ir_program.agents[t.id + 1].name \o
        (IF Len(t.slots) = 0 THEN ""
         ELSE "(" \o print_slots(refs, t.slots, 1, max_recursion) \o ")")

print_slots(refs, sl, i, max_recursion) ==
    IF i > Len(sl) THEN ""
    ELSE (IF i = 1 THEN "" ELSE ", ") \o print(refs, sl[i], max_recursion - 1)
            \o print_slots(refs, sl, i + 1, max_recursion)

print_non_null(refs, v, max_recursion) ==
    IF max_recursion = 0 THEN "..."
    ELSE IF v.t = "Term" THEN print_term(refs, v, max_recursion)
    ELSE IF refs[v.r].k = "Name" THEN "x" \o ToString(refs[v.r].n)
    ELSE print_non_null(refs, refs[v.r].v, max_recursion)

print(refs, v, max_recursion) ==
    IF max_recursion = 0 THEN "..."
    ELSE IF v.t = "Term" THEN print_term(refs, v, max_recursion)
    ELSE IF v.t = "None" THEN "?"
    ELSE IF refs[v.r].k = "Name" THEN "x" \o ToString(refs[v.r].n)
    ELSE print_non_null(refs, refs[v.r].v, max_recursion)

StackFrame == [names |-> <<>>, agents |-> <<>>, slots |-> <<>>]

prepare_index(vec, index) ==
    IF Len(vec) <= index THEN vec \o [k \in 1..(index + 1 - Len(vec)) |-> VNone] ELSE vec
set_index(vec, index, v) == [prepare_index(vec, index) EXCEPT ![index + 1] = v]

frame_vec(local) ==
    IF local.l = "Name" THEN "names" ELSE IF local.l = "Agent" THEN "agents" ELSE "slots"
\* StackFrame::get_mut (read) and StackFrame::get, which moves the value out
get_mut(frame, local) == frame[frame_vec(local)][local.index + 1]
get(frame, local) ==
    [frame |-> [frame EXCEPT ![frame_vec(local)][local.index + 1] = take(@)],
     value |-> get_mut(frame, local)]

\* st = [rt, frame, left, right, err]: the state of one execute call; err is
\* "" or the ExecutionError that ended it
RECURSIVE execute_main_initializers(_, _, _)
execute_main_initializers(st, initializers, i) ==
    IF i > Len(initializers) \/ st.err # "" THEN st
    ELSE LET ini == initializers[i]
             n == new_name(st.rt)
         IN  execute_main_initializers(
                IF ini.op = "Name"
                THEN [st EXCEPT !.rt = n.rt,
                                !.frame.names = set_index(@, ini.index, n.value)]
                ELSE IF ini.op = "Agent"
                THEN [st EXCEPT !.frame.agents = set_index(@, ini.index, new_agent(ini.id))]
                ELSE [st EXCEPT !.err = "InvalidInstruction"],
                initializers, i + 1)

RECURSIVE execute_initializers(_, _, _)
execute_initializers(st, initializers, i) ==
    IF i > Len(initializers) \/ st.err # "" THEN st
    ELSE LET ini == initializers[i]
             n == new_name(st.rt)
         IN  execute_initializers(
                IF ini.op = "Name"
                THEN [st EXCEPT !.rt = n.rt,
                                !.frame.names = set_index(@, ini.index, n.value)]
                ELSE IF ini.op = "Agent"
                THEN [st EXCEPT !.frame.agents = set_index(@, ini.index, new_agent(ini.id))]
                ELSE IF ini.op = "SlotFromLeft"
                THEN IF ini.slot \in 1..Len(st.left.slots)
                     THEN [st EXCEPT !.frame.slots =
                                        set_index(@, ini.index, st.left.slots[ini.slot]),
                                     !.left.slots[ini.slot] = take(@)]
                     ELSE [st EXCEPT !.err = "SlotNotFound"]
                ELSE IF ini.slot \in 1..Len(st.right.slots)
                     THEN [st EXCEPT !.frame.slots =
                                        set_index(@, ini.index, st.right.slots[ini.slot]),
                                     !.right.slots[ini.slot] = take(@)]
                     ELSE [st EXCEPT !.err = "SlotNotFound"],
                initializers, i + 1)

execute_set_slot(st, ins) ==
    LET g == get(st.frame, ins.value)
        tgt == get_mut(g.frame, ins.target)
    IN  IF tgt.t = "None" THEN [st EXCEPT !.frame = g.frame, !.err = "UninitializedLocal"]
        ELSE IF tgt.t = "Ref" THEN [st EXCEPT !.frame = g.frame, !.err = "InvalidRead"]
        ELSE IF ins.slot \notin 1..Len(tgt.slots)
        THEN [st EXCEPT !.frame = g.frame, !.err = "SlotNotFound"]
        ELSE [st EXCEPT !.frame =
                [g.frame EXCEPT ![frame_vec(ins.target)][ins.target.index + 1].slots[ins.slot]
                                    = g.value]]

execute_push_equation(st, ins) ==
    LET l == get(st.frame, ins.left)
        r == get(l.frame, ins.right)
    IN  IF l.value.t = "None" THEN [st EXCEPT !.frame = l.frame, !.err = "UninitializedLocal"]
        ELSE IF r.value.t = "None"
        THEN [st EXCEPT !.frame = r.frame, !.err = "UninitializedLocal"]
        ELSE [st EXCEPT !.frame = r.frame, !.rt = push_equation(@, l.value, r.value)]

RECURSIVE execute_instructions(_, _, _)
execute_instructions(st, instructions, i) ==
    IF i > Len(instructions) \/ st.err # "" THEN st
    ELSE execute_instructions(
            IF instructions[i].op = "SetSlot" THEN execute_set_slot(st, instructions[i])
            ELSE execute_push_equation(st, instructions[i]),
            instructions, i + 1)

\* StackFrame::execute_main and StackFrame::execute on a new frame
execute_main(rt, initializers, instructions) ==
    execute_instructions(
        execute_main_initializers(
            [rt |-> rt, frame |-> StackFrame, left |-> VNone, right |-> VNone, err |-> ""],
            initializers, 1),
        instructions, 1)

execute(rt, initializers, instructions, lhs, rhs) ==
    execute_instructions(
        execute_initializers(
            [rt |-> rt, frame |-> StackFrame, left |-> lhs, right |-> rhs, err |-> ""],
            initializers, 1),
        instructions, 1)

\* one popped equation as the engines decide it: the kind of reduction and,
\* for an interaction, the popped pair, the rule found (or NoRule) and the
\* pair handed to the rule as (left, right)
Decision(kind, popped, found, args) ==
    [kind |-> kind, popped |-> popped, rule |-> found, args |-> args]
Step(d) == [kind |-> d.kind, rule |-> d.rule]

\* variant: the name stays unbound
reduce_variable_lost(rt, r, rhs) == rt

\* variant: the value goes to a new cell, the name cell is not reused
reduce_variable_copy(rt, r, rhs) == [rt EXCEPT !.refs = Append(@, RefValue(rhs))]

\* VM::reduce_variable, on the cell r
reduce_variable(rt, r, rhs) == [rt EXCEPT !.refs[r] = RefValue(rhs)]

\* VM::reduce_indirection: the cell is left as Name(0), its value is pushed
\* on the left
reduce_indirection(rt, r, rhs) ==
    push_equation([rt EXCEPT !.refs[r] = RefName(0)], rt.refs[r].v, rhs)

\* variant: the agent ids are ordered, the terms are not
reduce_interaction_as_popped(rt, tl, tr) ==
    LET lhs == tl
        rhs == tr
        found == rule_map_get(Min({tl.id, tr.id}), Max({tl.id, tr.id}))
        st == execute(rt, ir_program.rules[found + 1].initializers,
                      ir_program.rules[found + 1].instructions, lhs, rhs)
        d == Decision("interaction", <<tl, tr>>, found, <<lhs, rhs>>)
    IN  IF found = NoRule
        THEN [rt |-> rt, err |-> "RuleNotFound", decision |-> d,
              error |-> "no rule for " \o print_term(rt.refs, lhs, MessageMaxRecursion)
                        \o " and " \o print_term(rt.refs, rhs, MessageMaxRecursion)]
        ELSE IF st.err # ""
        THEN [rt |-> st.rt, err |-> "RuleError", decision |-> d,
              error |-> "in rule " \o ToString(found) \o ": " \o st.err]
        ELSE [rt |-> st.rt, err |-> "", decision |-> d, error |-> ""]

\* VM::reduce_interaction: [rt, err, error, decision]
reduce_interaction(rt, tl, tr) ==
    LET lhs == IF tl.id > tr.id THEN tr ELSE tl
        rhs == IF tl.id > tr.id THEN tl ELSE tr
        found == rule_map_get(lhs.id, rhs.id)
        st == execute(rt, ir_program.rules[found + 1].initializers,
                      ir_program.rules[found + 1].instructions, lhs, rhs)
        d == Decision("interaction", <<tl, tr>>, found, <<lhs, rhs>>)
    IN  IF found = NoRule
        THEN [rt |-> rt, err |-> "RuleNotFound", decision |-> d,
              error |-> "no rule for " \o print_term(rt.refs, lhs, MessageMaxRecursion)
                        \o " and " \o print_term(rt.refs, rhs, MessageMaxRecursion)]
        ELSE IF st.err # ""
        THEN [rt |-> st.rt, err |-> "RuleError", decision |-> d,
              error |-> "in rule " \o ToString(found) \o ": " \o st.err]
        ELSE [rt |-> st.rt, err |-> "", decision |-> d, error |-> ""]

\* the body of `while let Some((lhs, rhs)) = pop_equation()` in VM::run
vm_dispatch(rt, lhs, rhs) ==
    IF lhs.t = "Ref"
    THEN IF rt.refs[lhs.r].k = "Name"
         THEN [rt |-> reduce_variable(rt, lhs.r, rhs), err |-> "", error |-> "",
               decision |-> Decision("variable", <<>>, NoRule, <<>>)]
         ELSE [rt |-> reduce_indirection(rt, lhs.r, rhs), err |-> "", error |-> "",
               decision |-> Decision("indirection", <<>>, NoRule, <<>>)]
    ELSE IF rhs.t = "Ref"
    THEN IF rt.refs[rhs.r].k = "Name"
         THEN [rt |-> reduce_variable(rt, rhs.r, lhs), err |-> "", error |-> "",
               decision |-> Decision("variable", <<>>, NoRule, <<>>)]
         ELSE [rt |-> reduce_indirection(rt, rhs.r, lhs), err |-> "", error |-> "",
               decision |-> Decision("indirection", <<>>, NoRule, <<>>)]
    ELSE reduce_interaction(rt, lhs, rhs)

Main == ir_program.functions[ir_program.entry_point + 1]

VMNew ==
    [status |-> "new", rt |-> Runtime, main_frame |-> StackFrame, out |-> <<>>,
     error |-> "", reductions |-> 0, last |-> Decision("none", <<>>, NoRule, <<>>),
     trace |-> <<>>]

\* VM::run up to the loop: the main function is executed on main_frame
VMExecuteMain ==
    /\ ir_program.ok
    /\ vm.status = "new"
    /\ LET st == execute_main(vm.rt, Main.initializers, Main.instructions)
       IN  vm' = IF st.err # ""
                 THEN [vm EXCEPT !.status = "error", !.rt = st.rt,
                                 !.error = "in function main: " \o st.err]
                 ELSE [vm EXCEPT !.status = "running", !.rt = st.rt,
                                 !.main_frame = st.frame]
    /\ UNCHANGED <<module, call, ir_program, stack_size, c, builder, tcc>>

\* one turn of the loop of VM::run
VMReduce ==
    /\ vm.status = "running"
    /\ vm.rt.equation_stack # <<>>
    /\ LET n == Len(vm.rt.equation_stack)
           popped == vm.rt.equation_stack[n]
           rt0 == [vm.rt EXCEPT !.equation_stack = SubSeq(@, 1, n - 1)]
           res == vm_dispatch(rt0, popped[1], popped[2])
       IN  vm' = [vm EXCEPT !.rt = res.rt,
                            !.reductions = @ + 1,
                            !.last = res.decision,
                            !.trace = Append(@, Step(res.decision)),
                            !.status = IF res.err # "" THEN "error" ELSE @,
                            !.error = res.error]
    /\ UNCHANGED <<module, call, ir_program, stack_size, c, builder, tcc>>

\* one turn of `for output in self.main.outputs`
VMOutput ==
    /\ vm.status = "running"
    /\ vm.rt.equation_stack = <<>>
    /\ Len(vm.out) < Len(Main.outputs)
    /\ LET g == get(vm.main_frame, Main.outputs[Len(vm.out) + 1])
       IN  vm' = [vm EXCEPT !.main_frame = g.frame,
                            !.out = Append(@, print(vm.rt.refs, g.value, OutputMaxRecursion))]
    /\ UNCHANGED <<module, call, ir_program, stack_size, c, builder, tcc>>

\* VM::run returns Ok(())
VMReturn ==
    /\ vm.status = "running"
    /\ vm.rt.equation_stack = <<>>
    /\ Len(vm.out) = Len(Main.outputs)
    /\ vm' = [vm EXCEPT !.status = "done"]
    /\ UNCHANGED <<module, call, ir_program, stack_size, c, builder, tcc>>

(***************************************************************************)
(* The C program emitted by src/src/runtime/target/c.rs.  The heap is the  *)
(* sequence of the blocks malloc has returned, a pointer is the index of   *)
(* its block (0 is NULL) and word k of a block is its element k + 1; freed *)
(* is the set of the blocks handed to free.  cs is the state of the        *)
(* process: [heap, freed, eq_stack, name_counter, exited].                 *)
(***************************************************************************)
AGENT_COUNT == Len(ir_program.agents)
NAME_COUNTER_START == Len(ir_program.agents)
ARITY(agent_id) == ir_program.agents[agent_id + 1].arity
AGENTS(agent_id) == ir_program.agents[agent_id + 1].name
\* init_rules: RULES[l][r], a later assignment overwriting an earlier one
RULES(l, r) == rule_map_get(l, r)
IS_NAME(heap, t) == heap[t][1] >= AGENT_COUNT
IS_AGENT(heap, t) == heap[t][1] < AGENT_COUNT

\* malloc does not initialise: the slots of a new agent hold no pointer yet
Uninitialised == "uninitialised"

CProcess ==
    [heap |-> <<>>, freed |-> {}, eq_stack |-> <<>>,
     name_counter |-> NAME_COUNTER_START, exited |-> FALSE]

c_new_agent(cs, agent_id) ==
    [cs |-> [cs EXCEPT !.heap = Append(@, <<agent_id>> \o
                                    [k \in 1..ARITY(agent_id) |-> Uninitialised])],
     ptr |-> Len(cs.heap) + 1]

c_new_name(cs) ==
    [cs |-> [cs EXCEPT !.heap = Append(@, <<cs.name_counter, 0>>),
                       !.name_counter = @ + 1],
     ptr |-> Len(cs.heap) + 1]

\* variant: the bound is compared after the write
c_push_equation_late(cs, left, right) ==
    IF Len(cs.eq_stack) > stack_size THEN [cs EXCEPT !.exited = TRUE]
    ELSE [cs EXCEPT !.eq_stack = Append(@, <<left, right>>)]

\* push_equation: exit(1) when the stack already holds MAX_STACK_SIZE entries
c_push_equation(cs, left, right) ==
    IF Len(cs.eq_stack) >= stack_size THEN [cs EXCEPT !.exited = TRUE]
    ELSE [cs EXCEPT !.eq_stack = Append(@, <<left, right>>)]

\* free(ptr) in run(): not reached once push_equation has called exit
free(cs, ptr) == IF cs.exited THEN cs ELSE [cs EXCEPT !.freed = @ \cup {ptr}]

\* free_term: [freed, ub]; ub when a block is reached that is already freed
RECURSIVE free_term(_, _, _)
RECURSIVE free_slots(_, _, _, _)
free_term(heap, acc, t) ==
    IF t \in acc.freed THEN [acc EXCEPT !.ub = TRUE]
    ELSE IF IS_NAME(heap, t) THEN [acc EXCEPT !.freed = @ \cup {t}]
    ELSE LET inner == free_slots(heap, acc, t, 1)
         IN  [inner EXCEPT !.freed = @ \cup {t}]

free_slots(heap, acc, t, i) ==
    IF i > ARITY(heap[t][1]) \/ acc.ub THEN acc
    ELSE free_slots(heap, free_term(heap, acc, heap[t][i + 1]), t, i + 1)

\* the blocks print_term reads
RECURSIVE read_by_print(_, _, _)
read_by_print(heap, t, max_recursion) ==
    IF heap[t][1] = 0 THEN {t} \cup read_by_print(heap, heap[t][2], max_recursion)
    ELSE IF IS_NAME(heap, t) \/ ARITY(heap[t][1]) = 0 \/ max_recursion = 0 THEN {t}
    ELSE {t} \cup UNION {read_by_print(heap, heap[t][i + 1], max_recursion - 1) :
                            i \in 1..ARITY(heap[t][1])}

RECURSIVE c_print_term(_, _, _)
RECURSIVE c_print_slots(_, _, _, _)
c_print_term(heap, t, max_recursion) ==
    IF heap[t][1] = 0 THEN c_print_term(heap, heap[t][2], max_recursion)
    ELSE IF IS_NAME(heap, t) THEN "x" \o ToString(heap[t][1])
    ELSE IF ARITY(heap[t][1]) = 0 THEN AGENTS(heap[t][1])
    ELSE AGENTS(heap[t][1]) \o "("
            \o (IF max_recursion > 0 THEN c_print_slots(heap, t, 1, max_recursion - 1)
                ELSE "...")
            \o ")"

c_print_slots(heap, t, i, max_recursion) ==
    IF i > ARITY(heap[t][1]) THEN ""
    ELSE c_print_term(heap, heap[t][i + 1], max_recursion)
            \o (IF i # ARITY(heap[t][1]) THEN ", " ELSE "")
            \o c_print_slots(heap, t, i + 1, max_recursion)

\* a function body as write_rule / write_function emit it: the locals x, a
\* and s are the frame; fs = [cs, frame, left, right]
c_local(frame, local) == frame[frame_vec(local)][local.index + 1]
c_set_local(vec, index, ptr) ==
    [(IF Len(vec) <= index THEN vec \o [k \in 1..(index + 1 - Len(vec)) |-> 0] ELSE vec)
        EXCEPT ![index + 1] = ptr]

RECURSIVE c_initializers(_, _, _)
c_initializers(fs, initializers, i) ==
    IF i > Len(initializers) THEN fs
    ELSE LET ini == initializers[i]
             n == c_new_name(fs.cs)
             a == c_new_agent(fs.cs, ini.id)
         IN  c_initializers(
                IF ini.op = "Name"
                THEN [fs EXCEPT !.cs = n.cs,
                                !.frame.names = c_set_local(@, ini.index, n.ptr)]
                ELSE IF ini.op = "Agent"
                THEN [fs EXCEPT !.cs = a.cs,
                                !.frame.agents = c_set_local(@, ini.index, a.ptr)]
                ELSE IF ini.op = "SlotFromLeft"
                THEN [fs EXCEPT !.frame.slots =
                        c_set_local(@, ini.index, fs.cs.heap[fs.left][ini.slot + 1])]
                ELSE [fs EXCEPT !.frame.slots =
                        c_set_local(@, ini.index, fs.cs.heap[fs.right][ini.slot + 1])],
                initializers, i + 1)

RECURSIVE c_instructions(_, _, _)
c_instructions(fs, instructions, i) ==
    IF i > Len(instructions) \/ fs.cs.exited THEN fs
    ELSE LET ins == instructions[i]
         IN  c_instructions(
                IF ins.op = "SetSlot"
                THEN [fs EXCEPT !.cs.heap[c_local(fs.frame, ins.target)][ins.slot + 1] =
                                    c_local(fs.frame, ins.value)]
                ELSE [fs EXCEPT !.cs = c_push_equation(@, c_local(fs.frame, ins.left),
                                                       c_local(fs.frame, ins.right))],
                instructions, i + 1)

c_call(cs, initializers, instructions, left, right) ==
    c_instructions(
        c_initializers([cs |-> cs, frame |-> StackFrame, left |-> left, right |-> right],
                       initializers, 1),
        instructions, 1)

\* the body of `while (EQ_STACK_SIZE)` in run(), after pop_equation:
\* [cs, err, decision]
c_dispatch(cs, left, right) ==
    LET a_left == cs.heap[left][1]
        a_right == cs.heap[right][1]
        found == IF a_left <= a_right THEN RULES(a_left, a_right) ELSE RULES(a_right, a_left)
        args == IF a_left <= a_right THEN <<left, right>> ELSE <<right, left>>
        fs == c_call(cs, ir_program.rules[found + 1].initializers,
                     ir_program.rules[found + 1].instructions, args[1], args[2])
    IN  IF a_left = 0
        THEN [cs |-> free(c_push_equation(cs, cs.heap[left][2], right), left), err |-> "",
              decision |-> Decision("indirection", <<>>, NoRule, <<>>)]
        ELSE IF a_right = 0
        THEN [cs |-> free(c_push_equation(cs, left, cs.heap[right][2]), right), err |-> "",
              decision |-> Decision("indirection", <<>>, NoRule, <<>>)]
        ELSE IF IS_AGENT(cs.heap, left) /\ IS_AGENT(cs.heap, right)
        THEN IF found # NoRule
             THEN [cs |-> free(free(fs.cs, left), right), err |-> "",
                   decision |-> Decision("interaction", <<left, right>>, found, args)]
             ELSE [cs |-> [cs EXCEPT !.exited = TRUE],
                   err |-> "error: no rule for "
                            \o c_print_term(cs.heap, left, MessageMaxRecursion) \o " and "
                            \o c_print_term(cs.heap, right, MessageMaxRecursion),
                   decision |-> Decision("interaction", <<left, right>>, NoRule, <<>>)]
        ELSE IF IS_NAME(cs.heap, left)
        THEN [cs |-> [cs EXCEPT !.heap[left] = <<0, right>>], err |-> "",
              decision |-> Decision("variable", <<>>, NoRule, <<>>)]
        ELSE [cs |-> [cs EXCEPT !.heap[right] = <<0, left>>], err |-> "",
              decision |-> Decision("variable", <<>>, NoRule, <<>>)]

\* the two lines push_equation writes to stderr (the C text puts the flag
\* between backquotes)
StackOverflow ==
    "error: stack overflow\nhint: try to increase the stack size with --stack-size"

CNew ==
    [status |-> "new",
     cs |-> [heap |-> <<>>, freed |-> {}, eq_stack |-> <<>>, name_counter |-> 0,
             exited |-> FALSE],
     outputs |-> <<>>, out |-> <<>>, err |-> "", reductions |-> 0,
     last |-> Decision("none", <<>>, NoRule, <<>>), trace |-> <<>>, ub |-> FALSE]

\* main() up to run(): the entry point's function builds the net
CMain ==
    /\ ir_program.ok
    /\ c.status = "new"
    /\ LET fs == c_call(CProcess, Main.initializers, Main.instructions, 0, 0)
       IN  c' = [c EXCEPT !.cs = fs.cs,
                          !.status = IF fs.cs.exited THEN "exit1" ELSE "running",
                          !.err = IF fs.cs.exited THEN StackOverflow ELSE "",
                          !.outputs = [k \in DOMAIN Main.outputs |->
                                          c_local(fs.frame, Main.outputs[k])]]
    /\ UNCHANGED <<module, call, ir_program, stack_size, vm, builder, tcc>>

\* one turn of the loop of run()
CReduce ==
    /\ c.status = "running"
    /\ c.cs.eq_stack # <<>>
    /\ LET n == Len(c.cs.eq_stack)
           popped == c.cs.eq_stack[n]
           cs0 == [c.cs EXCEPT !.eq_stack = SubSeq(@, 1, n - 1)]
           res == c_dispatch(cs0, popped[1], popped[2])
       IN  c' = [c EXCEPT !.cs = res.cs,
                          !.reductions = @ + 1,
                          !.last = res.decision,
                          !.trace = Append(@, Step(res.decision)),
                          !.status = IF res.cs.exited THEN "exit1" ELSE @,
                          !.err = IF res.err # "" THEN res.err
                                  ELSE IF res.cs.exited THEN StackOverflow ELSE ""]
    /\ UNCHANGED <<module, call, ir_program, stack_size, vm, builder, tcc>>

\* one turn of the output loop of main(): print_term, free_term, newline.
\* Reading or freeing a freed block is undefined: the process may crash or
\* go on, and the line may be what the stale block held or anything else.
COutput ==
    /\ c.status = "running"
    /\ c.cs.eq_stack = <<>>
    /\ Len(c.out) < Len(c.outputs)
    /\ LET t == c.outputs[Len(c.out) + 1]
           stale == read_by_print(c.cs.heap, t, OutputMaxRecursion) \cap c.cs.freed # {}
           line == c_print_term(c.cs.heap, t, OutputMaxRecursion)
           acc == free_term(c.cs.heap, [freed |-> c.cs.freed, ub |-> FALSE], t)
       IN  IF ~stale /\ ~acc.ub
           THEN c' = [c EXCEPT !.out = Append(@, line), !.cs.freed = acc.freed]
           ELSE \/ c' = [c EXCEPT !.status = "crashed", !.ub = TRUE]
                \/ \E text \in {line, "<garbage>"} :
                      c' = [c EXCEPT !.out = Append(@, text), !.ub = TRUE,
                                     !.cs.freed = acc.freed \cup {t}]
    /\ UNCHANGED <<module, call, ir_program, stack_size, vm, builder, tcc>>

\* main() returns 0
CReturn ==
    /\ c.status = "running"
    /\ c.cs.eq_stack = <<>>
    /\ Len(c.out) = Len(c.outputs)
    /\ c' = [c EXCEPT !.status = "done"]
    /\ UNCHANGED <<module, call, ir_program, stack_size, vm, builder, tcc>>

\* Context::add_file then the build: the module is checked and, when the
\* checker accepts it, lowered to the IR Program
NoProgram == [ok |-> FALSE]
AddFile ==
    /\ call = NoCall
    /\ \E r \in check_module(module) :
          /\ call' = Called("add_file", 0, r)
          /\ ir_program' = IF IsOk(r) THEN build_runtime(module) ELSE NoProgram
    /\ UNCHANGED <<module, stack_size, vm, c, builder, tcc>>

(***************************************************************************)
(* Programs to compile and run.                                            *)
(***************************************************************************)
MaxNum == 2
MaxStackSize == 3
MaxOutputs == 2

O == Agent("O", <<>>)
S(t) == Agent("S", <<t>>)
RECURSIVE Num(_)
Num(n) == IF n = 0 THEN O ELSE S(Num(n - 1))

\* Peano addition with one # and one @ occurrence of z, w (second rule), r
AddS ==
    Rule(RuleTerm("S", <<NameIn("x")>>), RuleTerm("A", <<NameIn("y"), NameIn("w")>>),
         <<Equation(NameIn("x"), Agent("A", <<NameIn("y"), NameOut("z")>>)),
           Equation(NameIn("w"), S(NameIn("z")))>>)
AddO ==
    Rule(RuleTerm("O", <<>>), RuleTerm("A", <<NameIn("y"), NameOut("w")>>),
         <<Equation(NameIn("y"), NameOut("w"))>>)
AddNet(m, n) ==
    Net("Main", <<NameIn("r")>>, <<Equation(Num(m), Agent("A", <<Num(n), NameOut("r")>>))>>)
AddNetFlipped(m, n) ==
    Net("Main", <<NameIn("r")>>, <<Equation(Agent("A", <<Num(n), NameOut("r")>>), Num(m))>>)
PeanoAdd(m, n) == Module(<<AddS, AddO>>, <<AddNet(m, n)>>)

\* Peano addition with every name written #
HashAddS ==
    Rule(RuleTerm("S", <<NameIn("x")>>), RuleTerm("A", <<NameIn("y"), NameIn("w")>>),
         <<Equation(NameIn("x"), Agent("A", <<NameIn("y"), NameIn("z")>>)),
           Equation(NameIn("w"), S(NameIn("z")))>>)
HashAddO ==
    Rule(RuleTerm("O", <<>>), RuleTerm("A", <<NameIn("y"), NameIn("w")>>),
         <<Equation(NameIn("y"), NameIn("w"))>>)
HashAddNet(m, n) ==
    Net("Main", <<NameIn("r")>>, <<Equation(Num(m), Agent("A", <<Num(n), NameIn("r")>>))>>)
HashPeanoAdd(m, n) == Module(<<HashAddS, HashAddO>>, <<HashAddNet(m, n)>>)

FamAdd ==
    {Module(<<AddS, AddO>>, <<net>>) :
        net \in UNION {{AddNet(m, n), AddNetFlipped(m, n)} : m \in 0..MaxNum, n \in 0..MaxNum}}
    \cup {HashPeanoAdd(2, 2), PeanoAdd(2, 2)}
\* the same nets with a rule missing
FamNoRule ==
    {Module(<<r>>, <<net>>) :
        r \in {AddS, AddO},
        net \in {AddNet(0, 0), AddNet(1, 0), AddNetFlipped(0, 1), AddNetFlipped(1, 1)}}

\* a rule of one agent with itself, met directly and through a bound name
KK ==
    Rule(RuleTerm("K", <<NameIn("x")>>), RuleTerm("K", <<NameIn("y")>>),
         <<Equation(NameIn("x"), Agent("L", <<NameIn("y")>>))>>)
FamSelf ==
    {Module(<<KK>>, <<Net("Main", <<NameIn("r")>>, eqs)>>) :
        eqs \in {<<Equation(Agent("K", <<NameOut("r")>>), Agent("K", <<O>>))>>,
                 <<Equation(Agent("K", <<O>>), Agent("K", <<NameOut("r")>>))>>,
                 <<Equation(Agent("K", <<NameOut("r")>>), NameOut("v")),
                   Equation(NameIn("v"), Agent("K", <<O>>))>>,
                 <<Equation(NameIn("v"), Agent("K", <<NameOut("r")>>)),
                   Equation(Agent("K", <<O>>), NameOut("v"))>>}}

\* nets that only build their outputs
OutTerms == {O, S(O), Agent("P", <<O, S(O)>>)}
OutNames == <<"a", "b", "d">>
FamOutputs ==
    {Module(<<>>, <<Net("Main", ifs, <<>>)>>) : ifs \in SeqsUpTo(OutTerms, MaxOutputs)}
    \cup {Module(<<>>, <<Net("Main", [k \in DOMAIN ts |-> NameIn(OutNames[k])],
                             [k \in DOMAIN ts |-> Equation(ts[k], NameOut(OutNames[k]))])>>) :
            ts \in SeqsUpTo(OutTerms, MaxOutputs)}
    \cup {Module(<<>>, <<Net("Main", <<Agent("P", <<NameIn("x"), NameOut("x")>>)>>, <<>>)>>),
          Module(<<>>, <<Net("Main", <<NameIn("x"), NameOut("x")>>, <<>>)>>)}

\* nets whose equations join names: a name with itself, two names of the
\* interface, a name with a name another equation binds
FamNames ==
    {Module(<<>>, <<Net("Main", <<>>, <<Equation(NameIn("x"), NameOut("x"))>>)>>),
     Module(<<>>, <<Net("Main", <<NameIn("x"), NameOut("y")>>,
                        <<Equation(NameIn("y"), NameOut("x"))>>)>>),
     Module(<<>>, <<Net("Main", <<NameOut("w")>>,
                        <<Equation(NameIn("w"), NameOut("v")),
                          Equation(NameIn("v"), O)>>)>>),
     Module(<<>>, <<Net("Main", <<NameIn("w")>>,
                        <<Equation(NameIn("v"), NameOut("w")),
                          Equation(O, NameOut("v"))>>)>>),
     Module(<<>>, <<Net("Main", <<NameIn("w")>>,
                        <<Equation(O, NameOut("v")),
                          Equation(NameIn("v"), NameOut("w"))>>)>>)}

\* two additions in one net: the rule of the equation written last fires
\* over the equation written first
FamOrder ==
    {Module(<<AddS, AddO>>, <<Net("Main", <<NameIn("r"), NameIn("q")>>, eqs)>>) :
        eqs \in {<<Equation(O, Agent("A", <<O, NameOut("q")>>)),
                   Equation(S(O), Agent("A", <<O, NameOut("r")>>))>>,
                 <<Equation(S(O), Agent("A", <<O, NameOut("r")>>)),
                   Equation(O, Agent("A", <<O, NameOut("q")>>))>>}}

\* modules the checker accepts and the builder refuses
FamBuild ==
    {Module(<<>>, <<MainNet, MainNet>>),
     Module(<<>>, <<Net("Main", <<S(O), Agent("S", <<>>)>>, <<>>)>>)}

RunInputs ==
    FamAdd \cup FamNoRule \cup FamSelf \cup FamOutputs \cup FamNames \cup FamOrder
        \cup FamBuild

(***************************************************************************)
(* The checker specification: a module is drawn, then any checker function *)
(* is called on it (or on one of its rules, nets or equations).            *)
(***************************************************************************)
vars == <<module, call, ir_program, stack_size, vm, c, builder, tcc>>

InitCheck ==
    /\ module \in CheckInputs
    /\ call = NoCall
    /\ ir_program = NoProgram
    /\ stack_size = 0
    /\ vm = VMNew
    /\ c = CNew
    /\ builder = RuntimeBuilder
    /\ tcc = TccNew

NextCheck ==
    \/ CallCheckModule
    \/ CallCheckRuleTerms
    \/ CallCheckRuleVariables
    \/ CallCheckNetVariables
    \/ CallCheckOverlapping
    \/ CallCheckRuleIoBalance
    \/ CallCheckNetIoBalance
    \/ CallCheckEquationVarIoDir
    \/ CallCheckMain

SpecCheck == InitCheck /\ [][NextCheck]_vars

(***************************************************************************)
(* The run specification: a module and a stack size are drawn, the module  *)
(* is compiled, and the interpreter and the C program each run it.         *)
(***************************************************************************)
InitRun ==
    /\ module \in RunInputs
    /\ call = NoCall
    /\ ir_program = NoProgram
    /\ stack_size \in 0..MaxStackSize
    /\ vm = VMNew
    /\ c = CNew
    /\ builder = RuntimeBuilder
    /\ tcc = TccNew

NextVM == VMExecuteMain \/ VMReduce \/ VMOutput \/ VMReturn
NextC == CMain \/ CReduce \/ COutput \/ CReturn

NextRun ==
    \/ AddFile
    \/ VMExecuteMain
    \/ VMReduce
    \/ VMOutput
    \/ VMReturn
    \/ CMain
    \/ CReduce
    \/ COutput
    \/ CReturn

SpecRun == InitRun /\ [][NextRun]_vars

(***************************************************************************)
(* Claims about the reduction engines.                                     *)
(***************************************************************************)
\* the rules of the module whose heads are the agents a and b, in any order
RulesFor(a, b) ==
    {k - 1 : k \in {i \in DOMAIN module.rules :
        LET l == module.rules[i].term_pair.left.agent
            r == module.rules[i].term_pair.right.agent
        IN  {l, r} = {AGENTS(a), AGENTS(b)} /\ (l = r <=> a = b)}}

InteractionVerdict(d, ids, arg_ids, stopped, out) ==
    IF RulesFor(ids[1], ids[2]) # {}
    THEN /\ d.rule \in RulesFor(ids[1], ids[2])
         /\ arg_ids[1] <= arg_ids[2]
         /\ d.args = IF ids[1] <= ids[2] THEN d.popped ELSE <<d.popped[2], d.popped[1]>>
    ELSE /\ d.rule = NoRule
         /\ stopped
         /\ out = <<>>

NoRuleMessages(l, r) ==
    {"no rule for " \o l \o " and " \o r, "no rule for " \o r \o " and " \o l}

C7_Interactions ==
    /\ vm.last.kind = "interaction" =>
          /\ InteractionVerdict(vm.last,
                <<vm.last.popped[1].id, vm.last.popped[2].id>>,
                <<vm.last.args[1].id, vm.last.args[2].id>>,
                vm.status = "error", vm.out)
          /\ vm.last.rule = NoRule =>
                vm.error \in NoRuleMessages(
                    print_term(vm.rt.refs, vm.last.popped[1], MessageMaxRecursion),
                    print_term(vm.rt.refs, vm.last.popped[2], MessageMaxRecursion))
    /\ c.last.kind = "interaction" =>
          /\ InteractionVerdict(c.last,
                <<c.cs.heap[c.last.popped[1]][1], c.cs.heap[c.last.popped[2]][1]>>,
                IF c.last.rule = NoRule THEN <<0, 0>>
                ELSE <<c.cs.heap[c.last.args[1]][1], c.cs.heap[c.last.args[2]][1]>>,
                c.status = "exit1", c.out)
          /\ c.last.rule = NoRule =>
                c.err \in {"error: " \o m : m \in NoRuleMessages(
                    c_print_term(c.cs.heap, c.last.popped[1], MessageMaxRecursion),
                    c_print_term(c.cs.heap, c.last.popped[2], MessageMaxRecursion))}

C7_Stopped ==
    /\ vm.status = "error" => vm' = vm
    /\ c.status = "exit1" => c' = c

\* C7: an equation of two agent cells fires the rule of the module whose
\* heads are their two agents, whichever side each was popped on, with the
\* cell of the smaller agent id as left argument (the popped left cell when
\* the ids are equal); when the module has no such rule the engine stops
\* with RuleNotFound ("no rule for L and R"), pops no further equation and
\* prints no output.
C7_RuleDispatch == []C7_Interactions /\ [][C7_Stopped]_vars

C7_Witness ==
    /\ vm.last.kind = "interaction"
    /\ vm.last.rule # NoRule
    /\ vm.last.popped[1].id > vm.last.popped[2].id
    /\ c.last.kind = "interaction"
    /\ c.last.rule = NoRule

RECURSIVE Show(_)
RECURSIVE ShowArgs(_, _)
Show(t) == t.name \o (IF Len(t.body) = 0 THEN "" ELSE "(" \o ShowArgs(t.body, 1) \o ")")
ShowArgs(body, i) ==
    IF i > Len(body) THEN ""
    ELSE (IF i = 1 THEN "" ELSE ", ") \o Show(body[i]) \o ShowArgs(body, i + 1)
Ground(t) == TermNames(t) = <<>>

MainOf(m) == m.nets[CHOOSE j \in DOMAIN m.nets : m.nets[j].name = "Main"]
\* the lines the i-th interface of the net has to print when it is a term
\* without names, or a name an equation of the net binds to such a term
ExpectedLines(net, i) ==
    IF net.interfaces[i].kind = "Agent"
    THEN IF Ground(net.interfaces[i]) THEN {Show(net.interfaces[i])} ELSE {}
    ELSE {Show(net.equations[k].left) : k \in {e \in DOMAIN net.equations :
            /\ Ground(net.equations[e].left)
            /\ net.equations[e].right.kind = "Name"
            /\ as_name(net.equations[e].right) = as_name(net.interfaces[i])}}

OutputsFollowInterfaces(f, net) ==
    /\ Len(f.outputs) = Len(net.interfaces)
    /\ \A i \in DOMAIN net.interfaces :
          IF net.interfaces[i].kind = "Agent"
          THEN /\ f.outputs[i].l = "Agent"
               /\ \E k \in DOMAIN f.initializers :
                     /\ f.initializers[k].op = "Agent"
                     /\ f.initializers[k].index = f.outputs[i].index
                     /\ AGENTS(f.initializers[k].id) = net.interfaces[i].name
          ELSE /\ f.outputs[i].l = "Name"
               /\ \A j \in DOMAIN net.interfaces :
                     (net.interfaces[j].kind = "Name" /\ f.outputs[j] = f.outputs[i])
                        => as_name(net.interfaces[j]) = as_name(net.interfaces[i])

\* C8: when the interpreter ends without a runtime error it has printed one
\* line per interface of Main, the i-th line for the i-th interface, and
\* every line was printed with the equation stack empty; the outputs of each
\* Function have the length and the order of the net's interfaces.
C8_OutputLines ==
    /\ vm.status = "done" =>
          /\ Len(vm.out) = Len(MainOf(module).interfaces)
          /\ \A i \in DOMAIN vm.out : \A line \in ExpectedLines(MainOf(module), i) :
                vm.out[i] = line
    /\ vm.out # <<>> => vm.rt.equation_stack = <<>> /\ vm.status \in {"running", "done"}
    /\ ir_program.ok =>
          \A k \in DOMAIN module.nets :
              OutputsFollowInterfaces(ir_program.functions[k], module.nets[k])

C8_Witness ==
    /\ vm.status = "done"
    /\ Len(vm.out) = 2
    /\ vm.out[1] # vm.out[2]
    /\ MainOf(module).equations # <<>>

FourLine == "S(S(S(S(O))))"

C9_Accepted ==
    /\ module = PeanoAdd(2, 2) =>
          /\ call # NoCall => IsOk(call.res) /\ ir_program.ok
          /\ vm.status # "error"
          /\ vm.reductions <= 6
          /\ vm.rt.equation_stack # <<>> => vm.reductions < 6
          /\ vm.status = "done" => vm.out = <<FourLine>> /\ vm.rt.equation_stack = <<>>
    /\ (module = HashPeanoAdd(2, 2) /\ call # NoCall)
          => call.res.kind = "MultipleTimesAsInput"

\* every change of the equation stack after the main function is a turn of
\* the reduction loop, counted in reductions
C9_Counted ==
    (vm.status = "running" /\ vm'.rt.equation_stack # vm.rt.equation_stack)
        => vm'.reductions = vm.reductions + 1

\* C9: Peano addition with complementary sigils (z written @ in A(#y, @z),
\* the second rule O >< A(#y, @w) => #y = @w, the net ending in @r) is
\* accepted by the checker and built, its reduction never fails, it ends
\* after six turns of the loop with an empty stack and its one output line
\* is S(S(S(S(O)))); with every name written # the module is rejected with
\* MultipleTimesAsInput.
C9_PeanoAddition == []C9_Accepted /\ [][C9_Counted]_vars

C9_Witness ==
    /\ module = PeanoAdd(2, 2)
    /\ vm.status = "done"
    /\ vm.out = <<FourLine>>
    /\ vm.reductions > 0

\* C9 as the specification words it: the module with rules
\* S(#x) >< A(#y, #w) => #x = A(#y, #z), #w = S(#z) and
\* O >< A(#y, #w) => #y = #w and net Main <| #r |> S(S(O)) = A(S(S(O)), #r)
\* is accepted by the checker.
C9_AsWritten ==
    (module = HashPeanoAdd(2, 2) /\ call # NoCall) => IsOk(call.res)

\* C10: on one program and one stack bound the interpreter and the C
\* program decide every popped equation alike, fire the same rules, fail or
\* succeed together and print the same lines (runs of the C program with
\* undefined behaviour set aside).
C10_SameBehaviour ==
    (/\ vm.status \in {"done", "error"}
     /\ c.status \in {"done", "exit1"}
     /\ ~c.ub)
    => /\ vm.status = "done" <=> c.status = "done"
       /\ vm.out = c.out
       /\ \A i \in DOMAIN vm.trace \cap DOMAIN c.trace : vm.trace[i] = c.trace[i]
       /\ (vm.status = "done" /\ c.status = "done") => Len(vm.trace) = Len(c.trace)

(***************************************************************************)
(* The builder specifications.  SpecIntern calls add_or_get_agent on the   *)
(* GlobalBuilder of a RuntimeBuilder, any symbol with any arity, again and *)
(* again.  SpecBuild adds modules to a RuntimeBuilder and then builds it.  *)
(***************************************************************************)
MaxArity == 2
MaxAgents == 2
MaxBuildNets == 2
MaxModules == 2

AgentSymbols == {"$", "A", "B", "C"}

InitBuilder ==
    /\ module = Module(<<>>, <<>>)
    /\ call = NoCall
    /\ ir_program = NoProgram
    /\ stack_size = 0
    /\ vm = VMNew
    /\ c = CNew
    /\ builder = RuntimeBuilder
    /\ tcc = TccNew

\* one call of GlobalBuilder::add_or_get_agent; an Err leaves the builder
\* in use
CallAddOrGetAgent ==
    /\ \E name \in AgentSymbols, arity \in 0..MaxArity :
          LET g == add_or_get_agent(builder.global, name, arity)
          IN  /\ Len(g.agents) <= MaxAgents + 1
              /\ builder' = [builder EXCEPT !.global = g.agents]
              /\ call' = Called("add_or_get_agent", <<name, arity>>, [ok |-> g.ok, id |-> g.id])
    /\ UNCHANGED <<module, ir_program, stack_size, vm, c, tcc>>

SpecIntern == InitBuilder /\ [][CallAddOrGetAgent]_vars

BuildNets == {Net(n, <<>>, <<>>) : n \in {"Main", "main", "Aux"}}
BuildModules == {Module(<<>>, nets) : nets \in SeqsUpTo(BuildNets, MaxBuildNets)}

\* RuntimeBuilder::module on a builder no call has failed on; `added` counts
\* the modules
CallModule ==
    /\ builder.ok
    /\ call.fn # "build"
    /\ \E m \in BuildModules :
          /\ (IF call.fn = "module" THEN call.i ELSE 0) < MaxModules
          /\ module' = m
          /\ builder' = builder_module(builder, m)
          /\ call' = Called("module", (IF call.fn = "module" THEN call.i ELSE 0) + 1,
                            [ok |-> builder_module(builder, m).ok])
    /\ UNCHANGED <<ir_program, stack_size, vm, c, tcc>>

\* RuntimeBuilder::build, which consumes the builder
CallBuild ==
    /\ builder.ok
    /\ call.fn # "build"
    /\ ir_program' = build(builder)
    /\ call' = Called("build", 0, [ok |-> build(builder).ok])
    /\ UNCHANGED <<module, stack_size, vm, c, builder, tcc>>

NextBuild == CallModule \/ CallBuild

SpecBuild == InitBuilder /\ [][NextBuild]_vars

\* the table of a builder: every symbol once
Interned(agents, name) == {k \in DOMAIN agents : agents[k].name = name}

C13_Table ==
    /\ builder.global[1] = AgentMeta("$", 1)
    /\ \A name \in AgentSymbols : Cardinality(Interned(builder.global, name)) <= 1

C13_Call ==
    LET name == call'.i[1]
        arity == call'.i[2]
        old == builder.global
        now == builder'.global
        res == call'.res
    IN  /\ SubSeq(now, 1, Len(old)) = old
        /\ IF Interned(old, name) = {}
           THEN /\ res.ok
                /\ res.id = Len(old)
                /\ now = Append(old, AgentMeta(name, arity))
           ELSE /\ now = old
                /\ \A k \in Interned(old, name) :
                      /\ res.ok <=> old[k].arity = arity
                      /\ res.ok => res.id = k - 1

\* C13: `$` is agent 0 of arity 1 from the start; the first call for a
\* symbol appends it and returns the next id; a later call with the same
\* arity returns the same id and a later call with another arity fails, both
\* leaving the table as it was; no entry of the table ever changes.
C13_Interning == []C13_Table /\ [][C13_Call]_vars

C13_Witness ==
    /\ call.fn = "add_or_get_agent"
    /\ ~call.res.ok
    /\ call.i[1] # "$"
    /\ Len(builder.global) = 3

Mains(nets) == {k \in DOMAIN nets : nets[k].name = "Main"}

C14_Module ==
    call'.fn = "module" =>
        LET before == Cardinality(Mains(builder.functions))
            added == Cardinality(Mains(module'.nets))
        IN  /\ call'.res.ok <=> before + added <= 1
            /\ call'.res.ok = builder'.ok
            /\ call'.res.ok =>
                  /\ Len(builder'.functions) = Len(builder.functions) + Len(module'.nets)
                  /\ builder'.entry_point =
                        IF added = 1
                        THEN <<Len(builder.functions) + Min(Mains(module'.nets)) - 1>>
                        ELSE builder.entry_point

C14_Build ==
    call.fn = "build" =>
        /\ call.res.ok = ir_program.ok
        /\ call.res.ok <=> Cardinality(Mains(builder.functions)) = 1
        /\ call.res.ok =>
              /\ ir_program.functions = builder.functions
              /\ ir_program.functions[ir_program.entry_point + 1].name = "Main"
              /\ ir_program.functions[ir_program.entry_point + 1].index
                    = ir_program.entry_point

C14_WitnessDuplicate ==
    /\ call.fn = "module"
    /\ call.i = 2
    /\ ~call.res.ok
    /\ Cardinality(Mains(module.nets)) = 1

(***************************************************************************)
(* The equation stack and its bound.                                       *)
(***************************************************************************)
HasEquations(m) == Len(MainOf(m).equations) > 0

C11_Bounded ==
    /\ Len(c.cs.eq_stack) <= stack_size
    /\ c.cs.exited /\ c.last.kind # "interaction" =>
          /\ c.status = "exit1"
          /\ c.err = StackOverflow
          /\ Len(c.cs.eq_stack) <= stack_size
    /\ (stack_size = 0 /\ c.status # "new" /\ HasEquations(module)) =>
          /\ c.status = "exit1"
          /\ c.err = StackOverflow
          /\ c.cs.eq_stack = <<>>
          /\ c.reductions = 0
          /\ c.out = <<>>

\* a step of the C program either leaves the stack within the bound and goes
\* on, or finds it full at a push, keeps what it holds and exits
C11_FullPush ==
    (c.status \in {"new", "running"} /\ c'.status = "exit1" /\ c'.err = StackOverflow)
        => /\ Len(c'.cs.eq_stack) = stack_size
           /\ c'.out = c.out

\* C11: the equation stack of the C program never holds more than
\* MAX_STACK_SIZE equations; a push that finds it full writes nothing and
\* ends the program with the stack-overflow error, the --stack-size hint and
\* exit status 1; with MAX_STACK_SIZE = 0 the first push of a net with an
\* equation ends it so.
C11_StackBound == []C11_Bounded /\ [][C11_FullPush]_vars

C11_Witness ==
    /\ stack_size > 0
    /\ c.status = "exit1"
    /\ c.err = StackOverflow
    /\ c.reductions > 0
    /\ Len(c.cs.eq_stack) = stack_size
\* C12: in the interpreter a push that makes the equation stack longer than
\* max_stack_size is a StackOverflow runtime error: VM::run returns an error,
\* reduces no further equation and prints no output.
C12_OverflowIsError ==
    vm.rt.overflowed =>
        /\ vm.status = "error"
        /\ vm.out = <<>>
(***************************************************************************)
(* What the outputs and the popped equations hold.                         *)
(***************************************************************************)
\* following the bound cells from a value of the interpreter: "agent" when a
\* term is reached, "name" when an unbound cell is, "loop" after more hops
\* than there are cells
RECURSIVE Reaches(_, _, _)
Reaches(refs, v, hops) ==
    IF v.t = "Term" THEN "agent"
    ELSE IF v.t = "None" THEN "moved"
    ELSE IF refs[v.r].k = "Name" THEN "name"
    ELSE IF hops = 0 THEN "loop"
    ELSE Reaches(refs, refs[v.r].v, hops - 1)

\* the same from a block of the C program
RECURSIVE CReaches(_, _, _)
CReaches(heap, t, hops) ==
    IF heap[t][1] # 0 THEN (IF IS_AGENT(heap, t) THEN "agent" ELSE "name")
    ELSE IF hops = 0 THEN "loop"
    ELSE CReaches(heap, heap[t][2], hops - 1)

Accepted == call.fn = "add_file" /\ IsOk(call.res) /\ ir_program.ok

\* C15: for a program the checker accepts, once the loop has ended with an
\* empty stack every interface output leads through zero or more
\* indirections to an agent cell, never to an unbound name.
C15_OutputsAreHeads ==
    /\ (Accepted /\ vm.status = "running" /\ vm.rt.equation_stack = <<>> /\ vm.out = <<>>)
          => \A i \in DOMAIN Main.outputs :
                Reaches(vm.rt.refs, get_mut(vm.main_frame, Main.outputs[i]),
                        Len(vm.rt.refs)) = "agent"
    /\ (Accepted /\ c.status = "running" /\ c.cs.eq_stack = <<>> /\ c.out = <<>>)
          => \A i \in DOMAIN c.outputs :
                CReaches(c.cs.heap, c.outputs[i], Len(c.cs.heap)) = "agent"

UnboundName(refs, v) == v.t = "Ref" /\ refs[v.r].k = "Name"

\* C16: in a run of a program the checker accepts, the equation about to be
\* popped never has an unbound name on both sides.
C16_OneSideIsName ==
    /\ (Accepted /\ vm.status = "running" /\ vm.rt.equation_stack # <<>>) =>
          LET top == vm.rt.equation_stack[Len(vm.rt.equation_stack)]
          IN  ~(UnboundName(vm.rt.refs, top[1]) /\ UnboundName(vm.rt.refs, top[2]))
    /\ (Accepted /\ c.status = "running" /\ c.cs.eq_stack # <<>>) =>
          LET top == c.cs.eq_stack[Len(c.cs.eq_stack)]
          IN  ~(IS_NAME(c.cs.heap, top[1]) /\ IS_NAME(c.cs.heap, top[2]))

\* C17: in the C program of a module the checker accepts, no block is freed
\* twice and none is read or written after it was freed, from the entry
\* function to the last free_term.
C17_MemorySafe ==
    Accepted =>
        /\ ~c.ub
        /\ c.status # "crashed"
        /\ \A k \in DOMAIN c.cs.eq_stack :
              c.cs.eq_stack[k][1] \notin c.cs.freed /\ c.cs.eq_stack[k][2] \notin c.cs.freed

Indirection(refs, v) == v.t = "Ref" /\ refs[v.r].k = "Value"

C18_VM ==
    (Accepted /\ vm.status = "running" /\ vm.rt.equation_stack # <<>>
        /\ vm'.reductions = vm.reductions + 1) =>
        LET refs == vm.rt.refs
            n == Len(vm.rt.equation_stack)
            top == vm.rt.equation_stack[n]
            rest == SubSeq(vm.rt.equation_stack, 1, n - 1)
            i == IF Indirection(refs, top[1]) THEN 1 ELSE 2
            cell == top[i].r
            other == top[3 - i]
            target == refs[cell].v
        IN  (Indirection(refs, top[1]) \/ Indirection(refs, top[2])) =>
                /\ vm'.last.kind = "indirection"
                /\ vm'.last.rule = NoRule
                /\ vm'.rt.equation_stack
                      \in {Append(rest, <<target, other>>), Append(rest, <<other, target>>)}
                /\ vm'.rt.refs = [refs EXCEPT ![cell] = RefName(0)]

C18_C ==
    (Accepted /\ c.status = "running" /\ c.cs.eq_stack # <<>>
        /\ c'.reductions = c.reductions + 1) =>
        LET heap == c.cs.heap
            n == Len(c.cs.eq_stack)
            top == c.cs.eq_stack[n]
            rest == SubSeq(c.cs.eq_stack, 1, n - 1)
            i == IF heap[top[1]][1] = 0 THEN 1 ELSE 2
            cell == top[i]
            other == top[3 - i]
            target == heap[cell][2]
        IN  (heap[top[1]][1] = 0 \/ heap[top[2]][1] = 0) =>
                /\ c'.last.kind = "indirection"
                /\ c'.last.rule = NoRule
                /\ c'.cs.eq_stack
                      \in {Append(rest, <<target, other>>), Append(rest, <<other, target>>)}
                /\ c'.cs.heap = heap
                /\ c'.cs.freed = c.cs.freed \cup {cell}

\* C18: when the popped equation has an indirection cell on either side,
\* also when the other side is an unbound name, the loop pushes the equation
\* of the indirection's target and the other side, releases the indirection
\* cell, binds no name and fires no rule in that turn.
C18_IndirectionFirst == [][C18_VM /\ C18_C]_vars

C18_OnlyC == [][C18_C]_vars

UnboundVM(refs, v) == v.t = "Ref" /\ refs[v.r].k = "Name"

C19_VM ==
    (vm.status = "running" /\ vm.rt.equation_stack # <<>>
        /\ vm'.reductions = vm.reductions + 1) =>
        LET refs == vm.rt.refs
            n == Len(vm.rt.equation_stack)
            top == vm.rt.equation_stack[n]
        IN  (\E i \in 1..2 : UnboundVM(refs, top[i]) /\ ~Indirection(refs, top[3 - i])) =>
                /\ vm'.last.kind = "variable"
                /\ vm'.status = "running"
                /\ vm'.rt.equation_stack = SubSeq(vm.rt.equation_stack, 1, n - 1)
                /\ \E i \in 1..2 :
                      /\ UnboundVM(refs, top[i])
                      /\ vm'.rt.refs = [refs EXCEPT ![top[i].r] = RefValue(top[3 - i])]

C19_C ==
    (c.status = "running" /\ c.cs.eq_stack # <<>>
        /\ c'.reductions = c.reductions + 1) =>
        LET heap == c.cs.heap
            n == Len(c.cs.eq_stack)
            top == c.cs.eq_stack[n]
        IN  (\E i \in 1..2 : IS_NAME(heap, top[i]) /\ heap[top[3 - i]][1] # 0) =>
                /\ c'.last.kind = "variable"
                /\ c'.status = "running"
                /\ c'.cs.eq_stack = SubSeq(c.cs.eq_stack, 1, n - 1)
                /\ c'.cs.freed = c.cs.freed
                /\ \E i \in 1..2 :
                      /\ IS_NAME(heap, top[i])
                      /\ c'.cs.heap = [heap EXCEPT ![top[i]] = <<0, top[3 - i]>>]

\* C19: when the popped equation has an unbound name on one side and a cell
\* that is not an indirection on the other, the name cell itself becomes an
\* indirection to the other side and no other cell changes; nothing is
\* pushed, nothing is freed, and the stack is the old stack without its top.
C19_BindInPlace == [][C19_VM /\ C19_C]_vars

\* both engines have bound a name held by an agent's slot to an agent
C19_Witness ==
    /\ vm.last.kind = "variable"
    /\ c.last.kind = "variable"
    /\ \E r \in DOMAIN vm.rt.refs :
          vm.rt.refs[r].k = "Value" /\ vm.rt.refs[r].v.t = "Term"
    /\ \E p \in DOMAIN c.cs.heap :
          c.cs.heap[p][1] = 0 /\ p \notin c.cs.freed /\ IS_AGENT(c.cs.heap, c.cs.heap[p][2])

\* the PushEquation instructions of a function or rule, in IR order
Pushes(fn) == SelectSeq(fn.instructions, LAMBDA ins : ins.op = "PushEquation")

\* the agent id the initializers of fn give to the agent local, or NoRule
LocalAgentId(fn, local) ==
    LET hits == {k \in DOMAIN fn.initializers :
                    fn.initializers[k].op = "Agent" /\ fn.initializers[k].index = local.index}
    IN  IF hits = {} THEN NoRule ELSE fn.initializers[Max(hits)].id

\* the value v is what the local of fn holds when it is pushed: the agent of
\* its initializer, or an unbound name
VMHolds(refs, fn, local, v) ==
    IF local.l = "Agent" THEN v.t = "Term" /\ v.id = LocalAgentId(fn, local)
    ELSE IF local.l = "Name" THEN UnboundVM(refs, v)
    ELSE TRUE

CHolds(heap, fn, local, ptr) ==
    IF local.l = "Agent" THEN heap[ptr][1] = LocalAgentId(fn, local)
    ELSE IF local.l = "Name" THEN IS_NAME(heap, ptr)
    ELSE TRUE

\* the stack is rest followed by one equation per PushEquation of fn, in IR
\* order
VMPushed(rt, rest, fn) ==
    /\ Len(rt.equation_stack) = Len(rest) + Len(Pushes(fn))
    /\ SubSeq(rt.equation_stack, 1, Len(rest)) = rest
    /\ \A k \in DOMAIN Pushes(fn) :
          /\ VMHolds(rt.refs, fn, Pushes(fn)[k].left, rt.equation_stack[Len(rest) + k][1])
          /\ VMHolds(rt.refs, fn, Pushes(fn)[k].right, rt.equation_stack[Len(rest) + k][2])

CPushed(cs, rest, fn) ==
    /\ Len(cs.eq_stack) = Len(rest) + Len(Pushes(fn))
    /\ SubSeq(cs.eq_stack, 1, Len(rest)) = rest
    /\ \A k \in DOMAIN Pushes(fn) :
          /\ CHolds(cs.heap, fn, Pushes(fn)[k].left, cs.eq_stack[Len(rest) + k][1])
          /\ CHolds(cs.heap, fn, Pushes(fn)[k].right, cs.eq_stack[Len(rest) + k][2])

C20_VM ==
    /\ (vm.status = "new" /\ vm'.status = "running") => VMPushed(vm'.rt, <<>>, Main)
    /\ (vm.status = "running" /\ vm'.status = "running"
            /\ vm'.reductions # vm.reductions) =>
        LET n == Len(vm.rt.equation_stack)
            top == vm.rt.equation_stack[n]
            rest == SubSeq(vm.rt.equation_stack, 1, n - 1)
        IN  /\ n > 0
            /\ vm'.reductions = vm.reductions + 1
            /\ vm'.last.kind = "interaction" =>
                  /\ vm'.last.popped = top
                  /\ VMPushed(vm'.rt, rest, ir_program.rules[vm'.last.rule + 1])
            /\ vm'.last.kind = "variable" => vm'.rt.equation_stack = rest
            /\ vm'.last.kind = "indirection" =>
                  /\ Len(vm'.rt.equation_stack) = n
                  /\ SubSeq(vm'.rt.equation_stack, 1, n - 1) = rest

C20_C ==
    /\ (c.status = "new" /\ c'.status = "running") => CPushed(c'.cs, <<>>, Main)
    /\ (c.status = "running" /\ c'.status = "running"
            /\ c'.reductions # c.reductions) =>
        LET n == Len(c.cs.eq_stack)
            top == c.cs.eq_stack[n]
            rest == SubSeq(c.cs.eq_stack, 1, n - 1)
        IN  /\ n > 0
            /\ c'.reductions = c.reductions + 1
            /\ c'.last.kind = "interaction" =>
                  /\ c'.last.popped = top
                  /\ CPushed(c'.cs, rest, ir_program.rules[c'.last.rule + 1])
            /\ c'.last.kind = "variable" => c'.cs.eq_stack = rest
            /\ c'.last.kind = "indirection" =>
                  /\ Len(c'.cs.eq_stack) = n
                  /\ SubSeq(c'.cs.eq_stack, 1, n - 1) = rest

\* C20: every turn of the loop pops the top of the stack, the equation pushed
\* last among those still there, and leaves the equations under it as they
\* were; the entry function and a firing rule leave one equation per
\* PushEquation on top of them in IR order, the last one on top, and all of
\* them are there before the next pop.
C20_LastInFirstOut == [][C20_VM /\ C20_C]_vars

\* a rule with two PushEquation instructions has fired in both engines over
\* an equation that was not the only one
C20_Witness ==
    /\ vm.status = "running" /\ vm.last.kind = "interaction" /\ vm.last.rule # NoRule
    /\ Len(Pushes(ir_program.rules[vm.last.rule + 1])) >= 2
    /\ Len(vm.rt.equation_stack) >= 3
    /\ c.status = "running" /\ c.last.kind = "interaction" /\ c.last.rule # NoRule
    /\ Len(c.cs.eq_stack) >= 3

\* the entry function has pushed two equations with different agents on the
\* left and the first turn has popped the second
C20_WitnessMain ==
    /\ ir_program.ok
    /\ Len(Pushes(Main)) >= 2
    /\ Pushes(Main)[1].left.l = "Agent" /\ Pushes(Main)[2].left.l = "Agent"
    /\ LocalAgentId(Main, Pushes(Main)[1].left) # LocalAgentId(Main, Pushes(Main)[2].left)
    /\ Len(vm.rt.equation_stack) >= 2 /\ Len(c.cs.eq_stack) >= 2
    /\ vm.reductions = 1 /\ vm.status = "running"
    /\ c.reductions = 1 /\ c.status = "running"

(***************************************************************************)
(* The backend lowering and the optimiser, src/src/backend/builder.rs and  *)
(* src/src/backend/optimize.rs.  The backend's RuleBuilder::build ends     *)
(* every rule with FreeLeft and FreeRight; optimize turns an allocation    *)
(* of an agent with the id of an argument into a reuse of that argument.   *)
(***************************************************************************)
MaxLowerRules == 2
MaxOptimize == 2

FreeLeft == [op |-> "FreeLeft"]
FreeRight == [op |-> "FreeRight"]
ReuseLeft(index) == [op |-> "ReuseLeft", index |-> index]
ReuseRight(index) == [op |-> "ReuseRight", index |-> index]

\* variant: the right argument is not freed
rule_build_left_only(rule) == [rule EXCEPT !.instructions = @ \o <<FreeLeft>>]

\* the last lines of RuleBuilder::build
rule_build(rule) == [rule EXCEPT !.instructions = @ \o <<FreeLeft, FreeRight>>]

\* RuntimeBuilder::build_runtime of the backend
backend_build_runtime(m) ==
    LET p == build_runtime(m)
    IN  IF p.ok THEN [p EXCEPT !.rules = [k \in DOMAIN p.rules |-> rule_build(p.rules[k])]]
        ELSE p

\* Vec::remove(i), i counted from 1
Remove(vec, i) == SubSeq(vec, 1, i - 1) \o SubSeq(vec, i + 1, Len(vec))

\* variant: the last agent with the id is taken
optimize_side_last(rule, agent_id, free_op, reuse_op) ==
    LET found == {i \in DOMAIN rule.initializers :
                    rule.initializers[i].op = "Agent" /\ rule.initializers[i].id = agent_id}
        frees == {i \in DOMAIN rule.instructions : rule.instructions[i].op = free_op}
    IN  IF found # {} /\ frees # {}
        THEN [rule EXCEPT
                !.initializers = Remove(@, Max(found))
                    \o <<[op |-> reuse_op, index |-> rule.initializers[Max(found)].index]>>,
                !.instructions = Remove(@, Min(frees))]
        ELSE rule

\* variant: the agent is reused whether or not the argument is still freed
optimize_side_unfreed(rule, agent_id, free_op, reuse_op) ==
    LET found == {i \in DOMAIN rule.initializers :
                    rule.initializers[i].op = "Agent" /\ rule.initializers[i].id = agent_id}
        frees == {i \in DOMAIN rule.instructions : rule.instructions[i].op = free_op}
    IN  IF found # {}
        THEN [rule EXCEPT
                !.initializers = Remove(@, Min(found))
                    \o <<[op |-> reuse_op, index |-> rule.initializers[Min(found)].index]>>,
                !.instructions = IF frees # {} THEN Remove(@, Min(frees)) ELSE @]
        ELSE rule

\* one of the two if-let blocks of optimize_new_free
optimize_side(rule, agent_id, free_op, reuse_op) ==
    LET found == {i \in DOMAIN rule.initializers :
                    rule.initializers[i].op = "Agent" /\ rule.initializers[i].id = agent_id}
        frees == {i \in DOMAIN rule.instructions : rule.instructions[i].op = free_op}
    IN  IF found # {} /\ frees # {}
        THEN [rule EXCEPT
                !.initializers = Remove(@, Min(found))
                    \o <<[op |-> reuse_op, index |-> rule.initializers[Min(found)].index]>>,
                !.instructions = Remove(@, Min(frees))]
        ELSE rule

optimize_new_free(rule, rule_map) ==
    LET left_id == rule_map[rule.index + 1][1]
        right_id == rule_map[rule.index + 1][2]
    IN  optimize_side(optimize_side(rule, left_id, "FreeLeft", "ReuseLeft"),
                      right_id, "FreeRight", "ReuseRight")

optimize(p) ==
    [p EXCEPT !.rules = [k \in DOMAIN p.rules |-> optimize_new_free(p.rules[k], p.rule_map)]]

\* the input family: rules over F/1, G/1, P/2 and Z/0 that the checker
\* accepts one by one, in every order, and two nets
Z == Agent("Z", <<>>)
LowerRules ==
    {Rule(RuleTerm("F", <<NameIn("x")>>), RuleTerm("G", <<NameIn("y")>>),
          <<Equation(NameIn("x"), Agent("G", <<NameIn("y")>>))>>),
     Rule(RuleTerm("G", <<NameIn("y")>>), RuleTerm("F", <<NameIn("x")>>),
          <<Equation(NameIn("x"), Agent("G", <<NameIn("y")>>))>>),
     Rule(RuleTerm("F", <<NameIn("x")>>), RuleTerm("F", <<NameIn("y")>>),
          <<Equation(NameIn("x"), Agent("F", <<NameIn("y")>>))>>),
     Rule(RuleTerm("G", <<NameIn("x")>>), RuleTerm("G", <<NameIn("y")>>),
          <<Equation(NameIn("x"), Agent("G", <<Agent("G", <<NameIn("y")>>)>>))>>),
     Rule(RuleTerm("Z", <<>>), RuleTerm("P", <<NameIn("y"), NameOut("w")>>),
          <<Equation(NameIn("y"), NameOut("w"))>>),
     Rule(RuleTerm("P", <<NameIn("y"), NameIn("w")>>), RuleTerm("F", <<NameIn("x")>>),
          <<Equation(NameIn("x"), Agent("P", <<NameIn("y"), NameOut("z")>>)),
            Equation(NameIn("w"), Agent("F", <<NameIn("z")>>))>>),
     Rule(RuleTerm("Z", <<>>), RuleTerm("Z", <<>>), <<>>),
     Rule(RuleTerm("F", <<NameIn("x")>>), RuleTerm("G", <<NameIn("y")>>),
          <<Equation(NameIn("x"), Agent("G", <<Agent("G", <<NameIn("y")>>)>>))>>)}
LowerNets ==
    {MainNet,
     Net("Main", <<NameIn("r")>>,
         <<Equation(Agent("F", <<Z>>),
                    Agent("P", <<Agent("G", <<Z>>), NameOut("r")>>))>>)}
LowerInputs ==
    {Module(rules, <<net>>) : rules \in SeqsUpTo(LowerRules, MaxLowerRules), net \in LowerNets}

InitLower ==
    /\ module \in LowerInputs
    /\ call = NoCall
    /\ ir_program = NoProgram
    /\ stack_size = 0
    /\ vm = VMNew
    /\ c = CNew
    /\ builder = RuntimeBuilder
    /\ tcc = TccNew

\* Context::add_file, then the self.builder.build() of output_stream
CallBuildRuntime ==
    /\ call = NoCall
    /\ \E r \in check_module(module) :
          /\ call' = Called("add_file", 0, r)
          /\ ir_program' = IF IsOk(r) THEN backend_build_runtime(module) ELSE NoProgram
    /\ UNCHANGED <<module, stack_size, vm, c, builder, tcc>>

\* optimize::optimize(&mut runtime), on a built or an optimised program
CallOptimize ==
    /\ ir_program.ok
    /\ call.fn \in {"add_file", "optimize"}
    /\ call.i < MaxOptimize
    /\ ir_program' = optimize(ir_program)
    /\ call' = Called("optimize", call.i + 1, Ok)
    /\ UNCHANGED <<module, stack_size, vm, c, builder, tcc>>

NextLower == CallBuildRuntime \/ CallOptimize
SpecLower == InitLower /\ [][NextLower]_vars

\* the id under which the agent table holds a symbol
AgentIdOf(agents, name) == Min(Interned(agents, name)) - 1

\* C21: in a built program entry i of rule_map is (l, r, i) with l <= r,
\* rules[i].index is i, l and r are the ids of the two head symbols of rule
\* i, and no two entries have the same pair (l, r).
C21_RuleMapWellFormed ==
    ir_program.ok =>
        /\ Len(ir_program.rule_map) = Len(ir_program.rules)
        /\ \A i \in DOMAIN ir_program.rule_map :
              LET e == ir_program.rule_map[i]
                  heads == module.rules[i].term_pair
              IN  /\ e[3] = i - 1
                  /\ e[1] <= e[2]
                  /\ ir_program.rules[i].index = i - 1
                  /\ {e[1], e[2]} = {AgentIdOf(ir_program.agents, heads.left.agent),
                                     AgentIdOf(ir_program.agents, heads.right.agent)}
        /\ \A i, j \in DOMAIN ir_program.rule_map :
              i # j => <<ir_program.rule_map[i][1], ir_program.rule_map[i][2]>>
                       # <<ir_program.rule_map[j][1], ir_program.rule_map[j][2]>>

\* rule i of the module was written with the head of the larger id first
Swapped(i) ==
    AgentIdOf(ir_program.agents, module.rules[i].term_pair.left.agent)
        > AgentIdOf(ir_program.agents, module.rules[i].term_pair.right.agent)

\* the initializers of rule i start with one import per head name: those of
\* the head that ends on the left, then those of the head that ends on the
\* right, each from the slot of its position
ImportsOf(i, head, side, offset) ==
    \A p \in DOMAIN head.body :
        /\ offset + p <= Len(ir_program.rules[i].initializers)
        /\ ir_program.rules[i].initializers[offset + p] =
              (IF side = "Left" THEN SlotFromLeft(offset + p - 1, p)
               ELSE SlotFromRight(offset + p - 1, p))

\* C22: when the head written on the left has the larger agent id, its
\* names are imported by SlotFromRight and those of the head written on the
\* right by SlotFromLeft, each with the slot of its position; otherwise
\* (equal ids included) the names of the head written on the left are
\* imported by SlotFromLeft and those of the other by SlotFromRight.
C22_Canonicalisation ==
    ir_program.ok =>
        \A i \in DOMAIN ir_program.rules :
            LET heads == module.rules[i].term_pair
            IN  IF Swapped(i)
                THEN /\ ImportsOf(i, heads.right, "Left", 0)
                     /\ ImportsOf(i, heads.left, "Right", Len(heads.right.body))
                ELSE /\ ImportsOf(i, heads.left, "Left", 0)
                     /\ ImportsOf(i, heads.right, "Right", Len(heads.left.body))

\* a built program with a swapped rule whose heads have different numbers
\* of names, and a rule of an agent with itself
C22_Witness ==
    /\ ir_program.ok
    /\ \E i \in DOMAIN ir_program.rules :
          /\ Swapped(i)
          /\ Len(module.rules[i].term_pair.left.body) = 2
          /\ Len(module.rules[i].term_pair.right.body) = 1
    /\ \E i \in DOMAIN ir_program.rules :
          /\ module.rules[i].term_pair.left.agent = module.rules[i].term_pair.right.agent
          /\ module.rules[i].term_pair.left.body # <<>>

\* a function or rule of the IR: its outputs (a rule has none)
Outputs(fn) == IF "outputs" \in DOMAIN fn THEN fn.outputs ELSE <<>>

\* the instructions of fn that set a slot of the local, in IR order
SetSlotsOf(fn, local) ==
    SelectSeq(fn.instructions, LAMBDA ins : ins.op = "SetSlot" /\ ins.target = local)

\* where fn uses the local as a value
ValueUses(fn, local) ==
    {<<k, "value">> : k \in {j \in DOMAIN fn.instructions :
        fn.instructions[j].op = "SetSlot" /\ fn.instructions[j].value = local}}
    \cup {<<k, "left">> : k \in {j \in DOMAIN fn.instructions :
        fn.instructions[j].op = "PushEquation" /\ fn.instructions[j].left = local}}
    \cup {<<k, "right">> : k \in {j \in DOMAIN fn.instructions :
        fn.instructions[j].op = "PushEquation" /\ fn.instructions[j].right = local}}
    \cup {<<Len(fn.instructions) + k, "output">> : k \in {j \in DOMAIN Outputs(fn) :
        Outputs(fn)[j] = local}}

\* the agent terms written in a term, a sequence of terms, the equations
RECURSIVE AgentTerms(_)
RECURSIVE AgentTermsIn(_, _)
AgentTerms(t) == IF t.kind = "Name" THEN 0 ELSE 1 + AgentTermsIn(t.body, 1)
AgentTermsIn(ts, i) == IF i > Len(ts) THEN 0 ELSE AgentTerms(ts[i]) + AgentTermsIn(ts, i + 1)
RECURSIVE AgentTermsInEquations(_, _)
AgentTermsInEquations(eqs, i) ==
    IF i > Len(eqs) THEN 0
    ELSE AgentTerms(eqs[i].left) + AgentTerms(eqs[i].right)
            + AgentTermsInEquations(eqs, i + 1)

\* fn is lowered from a body with n agent terms
LoweredTerms(fn, n) ==
    LET inits == SelectSeq(fn.initializers, LAMBDA ini : ini.op = "Agent")
    IN  /\ Len(inits) = n
        /\ \A a \in DOMAIN inits :
              LET local == LocalAgent(inits[a].index)
                  sets == SetSlotsOf(fn, local)
                  uses == ValueUses(fn, local)
              IN  /\ inits[a].index = a - 1
                  /\ Len(sets) = ir_program.agents[inits[a].id + 1].arity
                  /\ \A k \in DOMAIN sets : sets[k].slot = k
                  /\ Cardinality(uses) <= 1
                  /\ \A u \in uses : \A j \in DOMAIN fn.instructions :
                        (fn.instructions[j].op = "SetSlot" /\ fn.instructions[j].target = local)
                            => j < u[1]
        /\ \A j \in DOMAIN fn.initializers :
              /\ fn.initializers[j].op = "Name" =>
                    Cardinality(ValueUses(fn, LocalName(fn.initializers[j].index))) = 2
              /\ fn.initializers[j].op \in {"SlotFromLeft", "SlotFromRight"} =>
                    Cardinality(ValueUses(fn, LocalSlot(fn.initializers[j].index))) = 1

Built == call.fn = "add_file" /\ ir_program.ok

\* C23: an agent term of arity k gets one Agent local of its own and k
\* SetSlot instructions on it, for the slots 1..k in this order; the local is
\* used as a value at most once and after all its SetSlot instructions; the
\* two occurrences of a name are the same local (a name local is used twice,
\* an imported head name once).
C23_TermLowering ==
    Built =>
        /\ \A i \in DOMAIN ir_program.rules :
              LoweredTerms(ir_program.rules[i],
                           AgentTermsInEquations(module.rules[i].equations, 1))
        /\ \A i \in DOMAIN ir_program.functions :
              LoweredTerms(ir_program.functions[i],
                           AgentTermsInEquations(module.nets[i].equations, 1)
                               + AgentTermsIn(module.nets[i].interfaces, 1))

\* a built program with an agent inside an agent in a rule and in the net,
\* and an agent without slots
C23_Witness ==
    /\ Built
    /\ \E i \in DOMAIN ir_program.rules : \E j \in DOMAIN ir_program.rules[i].instructions :
          LET ins == ir_program.rules[i].instructions[j]
          IN  ins.op = "SetSlot" /\ ins.value.l = "Agent"
    /\ \E j \in DOMAIN Main.instructions :
          Main.instructions[j].op = "SetSlot" /\ Main.instructions[j].value.l = "Agent"
    /\ \E j \in DOMAIN Main.initializers :
          /\ Main.initializers[j].op = "Agent"
          /\ ir_program.agents[Main.initializers[j].id + 1].arity = 0

\* the local has an initializer in fn
Initialized(fn, local) ==
    \E j \in DOMAIN fn.initializers :
        /\ fn.initializers[j].index = local.index
        /\ fn.initializers[j].op \in
              (IF local.l = "Name" THEN {"Name"}
               ELSE IF local.l = "Agent" THEN {"Agent"}
               ELSE {"SlotFromLeft", "SlotFromRight"})

\* every local that fn mentions in an instruction or as an output
LocalsOf(fn) ==
    UNION {IF fn.instructions[j].op = "SetSlot"
           THEN {fn.instructions[j].target, fn.instructions[j].value}
           ELSE IF fn.instructions[j].op = "PushEquation"
           THEN {fn.instructions[j].left, fn.instructions[j].right}
           ELSE {} : j \in DOMAIN fn.instructions}
    \cup {Outputs(fn)[k] : k \in DOMAIN Outputs(fn)}

ExecutionErrors == {"UninitializedLocal", "SlotNotFound", "InvalidRead", "InvalidInstruction"}

\* the messages VM::run gives for an ExecutionError of the entry function or
\* of a rule
ExecutionMessages ==
    {"in function main: " \o e : e \in ExecutionErrors}
    \cup {"in rule " \o ToString(k - 1) \o ": " \o e :
            k \in DOMAIN ir_program.rules, e \in ExecutionErrors}

\* C24: in the IR of an accepted module every local an instruction or an
\* output mentions has an initializer in its rule or function, and the VM
\* never stops with UninitializedLocal, SlotNotFound, InvalidRead or
\* InvalidInstruction, neither in the entry function nor in a rule.
C24_NoExecutionError ==
    Accepted =>
        /\ \A i \in DOMAIN ir_program.rules :
              \A local \in LocalsOf(ir_program.rules[i]) :
                  Initialized(ir_program.rules[i], local)
        /\ \A i \in DOMAIN ir_program.functions :
              \A local \in LocalsOf(ir_program.functions[i]) :
                  Initialized(ir_program.functions[i], local)
        /\ vm.error \notin ExecutionMessages

\* the VM has run to the end a program whose trace holds the firing of a
\* rule that imports head names, makes agents and names, and sets slots
C24_Witness ==
    /\ Accepted
    /\ vm.status = "done"
    /\ vm.out # <<>>
    /\ \E k \in DOMAIN vm.trace :
          /\ vm.trace[k].kind = "interaction"
          /\ vm.trace[k].rule # NoRule
          /\ LET rule == ir_program.rules[vm.trace[k].rule + 1]
             IN  /\ \E j \in DOMAIN rule.instructions : rule.instructions[j].op = "SetSlot"
                 /\ \E j \in DOMAIN rule.initializers : rule.initializers[j].op = "Name"
                 /\ \E j \in DOMAIN rule.initializers : rule.initializers[j].op = "SlotFromRight"

\* the elements of vec at the positions outside drop, in order
RECURSIVE Keep(_, _, _)
Keep(vec, drop, i) ==
    IF i > Len(vec) THEN <<>>
    ELSE (IF i \in drop THEN <<>> ELSE <<vec[i]>>) \o Keep(vec, drop, i + 1)

AgentsWithId(rule, agent_id) ==
    {j \in DOMAIN rule.initializers :
        rule.initializers[j].op = "Agent" /\ rule.initializers[j].id = agent_id}
HasOp(rule, op) == \E j \in DOMAIN rule.instructions : rule.instructions[j].op = op

\* what the claim says optimize_new_free makes of a rule
Reused(rule, rule_map) ==
    LET left_id == rule_map[rule.index + 1][1]
        right_id == rule_map[rule.index + 1][2]
        on_left == AgentsWithId(rule, left_id) # {} /\ HasOp(rule, "FreeLeft")
        p_left == IF on_left THEN {Min(AgentsWithId(rule, left_id))} ELSE {}
        for_right == AgentsWithId(rule, right_id) \ p_left
        on_right == for_right # {} /\ HasOp(rule, "FreeRight")
        p_right == IF on_right THEN {Min(for_right)} ELSE {}
        frees == {j \in DOMAIN rule.instructions :
                    \/ on_left /\ rule.instructions[j].op = "FreeLeft"
                    \/ on_right /\ rule.instructions[j].op = "FreeRight"}
    IN  [rule EXCEPT
            !.initializers =
                Keep(@, p_left \cup p_right, 1)
                \o (IF on_left
                    THEN <<ReuseLeft(rule.initializers[Min(p_left)].index)>> ELSE <<>>)
                \o (IF on_right
                    THEN <<ReuseRight(rule.initializers[Min(p_right)].index)>> ELSE <<>>),
            !.instructions = Keep(@, frees, 1)]

C25_Step ==
    (call'.fn = "optimize" /\ call' # call) =>
        /\ Len(ir_program'.rules) = Len(ir_program.rules)
        /\ \A i \in DOMAIN ir_program.rules :
              ir_program'.rules[i] = Reused(ir_program.rules[i], ir_program.rule_map)

\* C25: optimize_new_free, per side and the left side first: when the rule
\* allocates an agent with the id of that argument and still frees the
\* argument, the first such Agent initializer and the Free instruction go
\* and a Reuse of the same register is appended to the initializers;
\* otherwise the side is left alone; everything else keeps its order.
C25_ReuseArgument == [][C25_Step]_vars

\* an optimised program with a rule of an agent with itself that reuses both
\* arguments and a rule that reuses the left one only
C25_Witness ==
    /\ ir_program.ok
    /\ call.fn = "optimize"
    /\ \E i \in DOMAIN ir_program.rules :
          LET inits == ir_program.rules[i].initializers
          IN  /\ Len(inits) >= 2
              /\ inits[Len(inits) - 1].op = "ReuseLeft"
              /\ inits[Len(inits)].op = "ReuseRight"
              /\ ir_program.rule_map[i][1] = ir_program.rule_map[i][2]
    /\ \E i \in DOMAIN ir_program.rules :
          /\ ~HasOp(ir_program.rules[i], "FreeLeft")
          /\ HasOp(ir_program.rules[i], "FreeRight")

CountOp(vec, op) == Cardinality({j \in DOMAIN vec : vec[j].op = op})

\* the argument of one side is freed once and not reused, or reused once and
\* not freed, and a reuse comes after every import from that argument
ReleasedOnce(rule, free_op, reuse_op, import_op) ==
    /\ \/ CountOp(rule.instructions, free_op) = 1 /\ CountOp(rule.initializers, reuse_op) = 0
       \/ CountOp(rule.instructions, free_op) = 0 /\ CountOp(rule.initializers, reuse_op) = 1
    /\ \A j, k \in DOMAIN rule.initializers :
          (rule.initializers[j].op = reuse_op /\ rule.initializers[k].op = import_op) => k < j

\* C26: in every rule of a built program, optimised or not, each argument
\* is freed exactly once or reused exactly once, never both and never
\* neither; a reuse comes after every import from its argument; the two
\* sides are not reused into one register.
C26_ReleasedOnce ==
    ir_program.ok =>
        \A i \in DOMAIN ir_program.rules :
            LET rule == ir_program.rules[i]
            IN  /\ ReleasedOnce(rule, "FreeLeft", "ReuseLeft", "SlotFromLeft")
                /\ ReleasedOnce(rule, "FreeRight", "ReuseRight", "SlotFromRight")
                /\ \A j, k \in DOMAIN rule.initializers :
                      (rule.initializers[j].op = "ReuseLeft"
                          /\ rule.initializers[k].op = "ReuseRight")
                      => rule.initializers[j].index # rule.initializers[k].index

\* a program optimised twice in which a rule of two different agents, with
\* imports from both arguments, reuses both
C26_Witness ==
    /\ ir_program.ok
    /\ call.fn = "optimize" /\ call.i = 2
    /\ \E i \in DOMAIN ir_program.rules :
          LET rule == ir_program.rules[i]
          IN  /\ CountOp(rule.initializers, "ReuseLeft") = 1
              /\ CountOp(rule.initializers, "ReuseRight") = 1
              /\ CountOp(rule.initializers, "SlotFromLeft") >= 1
              /\ CountOp(rule.initializers, "SlotFromRight") >= 1
              /\ ir_program.rule_map[i][1] # ir_program.rule_map[i][2]

C27_Step ==
    (call'.fn = "optimize" /\ call' # call) =>
        /\ ir_program'.ok
        /\ ir_program'.agents = ir_program.agents
        /\ ir_program'.rule_map = ir_program.rule_map
        /\ ir_program'.functions = ir_program.functions
        /\ ir_program'.entry_point = ir_program.entry_point
        /\ call.fn = "optimize" => ir_program' = ir_program

\* C27: optimize on a program that optimize has already been run on changes
\* nothing, and optimize never changes the agents, rule_map, the functions
\* or the entry point.
C27_Idempotent == [][C27_Step]_vars

\* optimize has run twice on a program whose first run reused an argument
\* in a rule that allocates a second agent with that id
C27_Witness ==
    /\ ir_program.ok
    /\ call.fn = "optimize" /\ call.i = 2
    /\ \E i \in DOMAIN ir_program.rules :
          LET rule == ir_program.rules[i]
          IN  /\ CountOp(rule.initializers, "ReuseRight") = 1
              /\ AgentsWithId(rule, ir_program.rule_map[i][2]) # {}

(***************************************************************************)
(* A Context that source files are added to one after the other, as the    *)
(* loops of main() do (src/src/main.rs), and that is then written out.     *)
(* add_file takes the Context by value: after an Err there is no Context   *)
(* left to call (builder.ok is FALSE).                                     *)
(***************************************************************************)
MaxFiles == 2
MaxFileNets == 2

BuilderError == [kind |-> "BuilderError"]

FileRules ==
    {Rule(RuleTerm("Z", <<>>), RuleTerm("Z", <<>>), <<>>),
     Rule(RuleTerm("F", <<NameIn("x")>>), RuleTerm("F", <<NameIn("y")>>),
          <<Equation(NameIn("x"), Agent("F", <<NameIn("y")>>))>>)}
FileNets ==
    {MainNet, Net("Aux", <<>>, <<>>), Net("Main", <<Z>>, <<>>), Net("Aux", <<>>, <<MisdirectedEq>>)}
FileInputs ==
    {Module(rules, nets) : rules \in SeqsUpTo(FileRules, 1),
                           nets \in SeqsUpTo(FileNets, MaxFileNets)}

\* the files added so far
Files == IF call.fn \in {"add_file", "output"} THEN call.i ELSE 0

\* Context::add_file on the parsed module of one file
ContextAddFile ==
    /\ builder.ok
    /\ call.fn \in {"none", "add_file"}
    /\ Files < MaxFiles
    /\ \E m \in FileInputs : \E r \in check_module(m) :
          /\ module' = m
          /\ builder' = IF IsOk(r) THEN builder_module(builder, m)
                        ELSE [builder EXCEPT !.ok = FALSE]
          /\ call' = Called("add_file", Files + 1,
                            IF ~IsOk(r) THEN r
                            ELSE IF builder_module(builder, m).ok THEN Ok ELSE BuilderError)
    /\ UNCHANGED <<ir_program, stack_size, vm, c, tcc>>

\* Context::output_stream / output_file: the builder is built and optimised
ContextOutput ==
    /\ builder.ok
    /\ call.fn \in {"none", "add_file"}
    /\ ir_program' = (IF build(builder).ok
                      THEN optimize([build(builder) EXCEPT
                              !.rules = [k \in DOMAIN @ |-> rule_build(@[k])]])
                      ELSE NoProgram)
    /\ call' = Called("output", Files, IF build(builder).ok THEN Ok ELSE BuilderError)
    /\ UNCHANGED <<module, stack_size, vm, c, builder, tcc>>

NextContext == ContextAddFile \/ ContextOutput
SpecContext == InitBuilder /\ [][NextContext]_vars

C28_NoProgram ==
    /\ (call.fn = "add_file" /\ call.i >= 2) => ~IsOk(call.res) /\ ~builder.ok
    /\ (call.fn = "output" /\ call.i >= 2) => ~ir_program.ok
    /\ ir_program.ok => Files = 1

C28_Second ==
    (call'.fn = "add_file" /\ call' # call /\ call'.i >= 2) =>
        /\ builder.entry_point # <<>>
        /\ Mains(module'.nets) = {} => call'.res \notin {Ok, BuilderError}
        /\ call'.res = BuilderError <=> AllOk(check_module(module'))
        /\ (AllOk(check_module(module')) /\ builder_module(RuntimeBuilder, module').ok)
              => Mains(module'.nets) # {}

\* C28: once one file has been added, add_file on a second file always
\* returns an error, so no program is ever written from two or more files:
\* a file without a net named Main fails the check, and a file that passes
\* the check has a Main that the shared builder, which already holds an
\* entry point, refuses.
C28_SecondFileFails == []C28_NoProgram /\ [][C28_Second]_vars

\* a second file that passes the check and would build on its own has been
\* refused by the builder
C28_Witness ==
    /\ call.fn = "add_file" /\ call.i = 2
    /\ call.res = BuilderError
    /\ module.rules # <<>>
    /\ builder_module(RuntimeBuilder, module).ok

(***************************************************************************)
(* The tinycc binding, src/tinycc/src/lib.rs.  Threads create, relocate    *)
(* and drop contexts; a step is one access of the INITIALIZED flag or one  *)
(* run of calls into libtcc.  Context and RelocatedContext hold a raw      *)
(* pointer and so stay with the thread that made them.                     *)
(***************************************************************************)
Thread(t) == tcc.th[t]
Returned(t, pc, context, relocated, res) ==
    [tcc.th EXCEPT ![t] = [pc |-> pc, context |-> context, relocated |-> relocated,
                           res |-> res]]

\* bindings::tcc_delete on a state
tcc_delete(states, inner) == [states EXCEPT ![inner] = @ + 1]

\* Context::new, its first statement: INITIALIZED.swap(true, Acquire)
NewSwap(t) ==
    /\ Thread(t).pc = "idle"
    /\ Thread(t).context = 0
    /\ tcc' = [tcc EXCEPT
                !.INITIALIZED = TRUE,
                !.th = IF tcc.INITIALIZED
                       THEN Returned(t, "idle", 0, Thread(t).relocated, "AlreadyInitialized")
                       ELSE Returned(t, "tcc_new", 0, Thread(t).relocated, "none")]
    /\ UNCHANGED <<module, call, ir_program, stack_size, vm, c, builder>>

\* the rest of Context::new: tcc_new returns a state or null
NewState(t) ==
    /\ Thread(t).pc = "tcc_new"
    /\ \/ /\ Len(tcc.states) < MaxStates
          /\ tcc' = [tcc EXCEPT
                        !.states = Append(@, 0),
                        !.th = Returned(t, "idle", Len(tcc.states) + 1,
                                        Thread(t).relocated, "Ok")]
       \/ tcc' = [tcc EXCEPT
                    !.th = Returned(t, "idle", 0, Thread(t).relocated,
                                    "InitializationFailed")]
    /\ UNCHANGED <<module, call, ir_program, stack_size, vm, c, builder>>

\* a Context goes out of scope, first statement of Drop::drop: tcc_delete
DropContext(t) ==
    /\ Thread(t).pc = "idle"
    /\ Thread(t).context # 0
    /\ tcc' = [tcc EXCEPT
                !.states = tcc_delete(@, Thread(t).context),
                !.th = Returned(t, "store", Thread(t).context, Thread(t).relocated, "none")]
    /\ UNCHANGED <<module, call, ir_program, stack_size, vm, c, builder>>

\* Context::relocate up to the tcc_delete of the Drop that runs when self
\* goes out of scope at its end; on success the RelocatedContext holds the
\* same inner pointer
Relocate(t) ==
    /\ Thread(t).pc = "idle"
    /\ Thread(t).context # 0
    /\ Thread(t).relocated = 0
    /\ \E ok \in BOOLEAN :
          tcc' = [tcc EXCEPT
                    !.states = tcc_delete(@, Thread(t).context),
                    !.th = Returned(t, "store", Thread(t).context,
                                    IF ok THEN Thread(t).context ELSE 0,
                                    IF ok THEN "Ok" ELSE "RelocationFailed")]
    /\ UNCHANGED <<module, call, ir_program, stack_size, vm, c, builder>>

\* the second statement of Drop::drop: INITIALIZED.store(false, Relaxed)
DropStore(t) ==
    /\ Thread(t).pc = "store"
    /\ tcc' = [tcc EXCEPT
                !.INITIALIZED = FALSE,
                !.th = Returned(t, "idle", 0, Thread(t).relocated, Thread(t).res)]
    /\ UNCHANGED <<module, call, ir_program, stack_size, vm, c, builder>>

\* RelocatedContext::get_symbol / list_symbols: libtcc reads the state; on a
\* deleted state the read is undefined and may crash or return anything
GetSymbol(t) ==
    /\ Thread(t).pc = "idle"
    /\ Thread(t).relocated # 0
    /\ IF tcc.states[Thread(t).relocated] = 0
       THEN tcc' = [tcc EXCEPT !.th = Returned(t, "idle", Thread(t).context,
                                                Thread(t).relocated, "Symbol")]
       ELSE \E res \in {"Symbol", "None", "crashed"} :
                tcc' = [tcc EXCEPT
                          !.ub = TRUE,
                          !.th = Returned(t, IF res = "crashed" THEN "crashed" ELSE "idle",
                                          Thread(t).context, Thread(t).relocated, res)]
    /\ UNCHANGED <<module, call, ir_program, stack_size, vm, c, builder>>

\* a RelocatedContext goes out of scope: it has no Drop, only its buffer goes
DropRelocated(t) ==
    /\ Thread(t).pc = "idle"
    /\ Thread(t).relocated # 0
    /\ tcc' = [tcc EXCEPT !.th = Returned(t, "idle", Thread(t).context, 0, "none")]
    /\ UNCHANGED <<module, call, ir_program, stack_size, vm, c, builder>>

NextTcc ==
    \E t \in Threads :
        \/ NewSwap(t)
        \/ NewState(t)
        \/ DropContext(t)
        \/ Relocate(t)
        \/ DropStore(t)
        \/ GetSymbol(t)
        \/ DropRelocated(t)

SpecTcc == InitBuilder /\ [][NextTcc]_vars

\* a thread holds a Context from the return of new to the end of its drop
Alive == {t \in Threads : Thread(t).context # 0}

C29_OneContext == Cardinality(Alive) <= 1

\* a Context is alive or another thread is between the swap and the return
\* of new
Claimed == Alive \cup {t \in Threads : Thread(t).pc = "tcc_new"}

C29_New ==
    \A t \in Threads :
        (/\ Thread(t).pc = "idle"
         /\ \/ tcc'.th[t].pc = "tcc_new"
            \/ tcc'.th[t].res = "AlreadyInitialized" /\ tcc'.th[t] # tcc.th[t]) =>
            (tcc'.th[t].res = "AlreadyInitialized" <=> Claimed # {})

\* C29: at most one Context is alive at a time, and new returns
\* AlreadyInitialized exactly when a Context is alive: when the last one was
\* dropped, or an earlier new failed with InitializationFailed, new is not
\* refused.
C29_AlreadyInitialized == []C29_OneContext /\ [][C29_New]_vars

\* C30: the state a RelocatedContext points to has not been given to
\* tcc_delete while get_symbol or list_symbols can be called on it, and no
\* state is given to tcc_delete twice.
C30_StateLive ==
    /\ \A t \in Threads :
          (Thread(t).pc = "idle" /\ Thread(t).relocated # 0)
              => tcc.states[Thread(t).relocated] = 0
    /\ \A s \in DOMAIN tcc.states : tcc.states[s] <= 1
    /\ ~tcc.ub
====
